---------------------------- MODULE Spec2Model ----------------------------
(***************************************************************************)
(* Storefront of raj-restro (src/components/Catalogue.tsx): the cart, its  *)
(* mirror in localStorage, and the realtime catalogue read-model.          *)
(*                                                                         *)
(* The component is a React function component.  A state setter called in  *)
(* a handler takes effect at the next render; an effect (useEffect) runs   *)
(* after the commit of a render in which one of its dependencies changed.  *)
(* Handlers started by a click are rendered and their effects flushed      *)
(* before the click returns; a render caused by a Firestore callback or by *)
(* the mount is committed first and its effects run afterwards, and React  *)
(* flushes the pending effects before it renders anything else.  The model *)
(* keeps that: `pendingEffects` names the effects of the last commit that  *)
(* have not run yet, FlushEffects runs them, and no handler is taken while *)
(* an effect is pending.                                                   *)
(***************************************************************************)
EXTENDS Integers, Sequences, FiniteSets, TLC

(***************************************************************************)
(* Bounds of the model.                                                    *)
(***************************************************************************)
\* The quantities of a cart are not pushed above MaxUnits in all (guards of
\* add and increase).
MaxUnits == 3
\* The dialog's quantity stepper is not pushed above MaxTempQty.
MaxTempQty == 2
\* The most units a cart holds where orders are placed.
MaxOrderUnits == 2

(***************************************************************************)
(* JavaScript values.  Every value read from a Firestore document is one   *)
(* of these; `t` is its type, and the field of that type holds it.         *)
(***************************************************************************)
JSVal(type, num, str, arr) == [t |-> type, n |-> num, s |-> str, a |-> arr]
Undefined == JSVal("undefined", 0, "", <<>>)
Null == JSVal("null", 0, "", <<>>)
Num(x) == JSVal("number", x, "", <<>>)
Str(x) == JSVal("string", 0, x, <<>>)
Bool(b) == JSVal("boolean", IF b THEN 1 ELSE 0, "", <<>>)
\* An array of strings (the image lists).
Arr(x) == JSVal("array", 0, "", x)
\* A Firestore Timestamp; n is what toMillis() returns.
Stamp(ms) == JSVal("timestamp", ms, "", <<>>)

\* ToBoolean: what `!v`, `v || w` and `v && w` test.
Truthy(v) ==
    CASE v.t = "undefined" -> FALSE
      [] v.t = "null" -> FALSE
      [] v.t = "number" -> v.n # 0
      [] v.t = "string" -> v.s # ""
      [] v.t = "boolean" -> v.n = 1
      [] OTHER -> TRUE

\* v || w
OrElse(v, w) == IF Truthy(v) THEN v ELSE w
\* v ?? w
Nullish(v, w) == IF v.t \in {"undefined", "null"} THEN w ELSE v

(***************************************************************************)
(* Array.prototype.sort as V8 runs it on a short array (TimSort below its  *)
(* minimum run length): the leading run is found and, when strictly        *)
(* descending, reversed; every later element is inserted by binary search. *)
(* The comparator of both snapshot callbacks: 0 when either side has no    *)
(* createdAt, else b.createdAt.toMillis() - a.createdAt.toMillis().        *)
(***************************************************************************)
CompareCreatedAt(a, b) ==
    IF ~Truthy(a.createdAt) \/ ~Truthy(b.createdAt)
    THEN 0
    ELSE b.createdAt.n - a.createdAt.n

RECURSIVE RunLength(_, _, _)
\* The length of the run of s that starts at s[1], s[1..len] being in it.
RunLength(s, len, descending) ==
    IF len >= Len(s) THEN len
    ELSE LET order == CompareCreatedAt(s[len + 1], s[len])
         IN  IF descending
             THEN IF order >= 0 THEN len ELSE RunLength(s, len + 1, descending)
             ELSE IF order < 0 THEN len ELSE RunLength(s, len + 1, descending)

Reverse(s) == [i \in 1..Len(s) |-> s[Len(s) + 1 - i]]

RECURSIVE BinarySearch(_, _, _, _)
\* Positions are counted from 0, as in the engine; s[mid + 1] is element mid.
BinarySearch(s, pivot, left, right) ==
    IF left >= right THEN left
    ELSE LET mid == left + ((right - left) \div 2)
         IN  IF CompareCreatedAt(pivot, s[mid + 1]) < 0
             THEN BinarySearch(s, pivot, left, mid)
             ELSE BinarySearch(s, pivot, mid + 1, right)

RECURSIVE BinaryInsertionSort(_, _)
\* s[1..start] is sorted; the elements after it are inserted one by one.
BinaryInsertionSort(s, start) ==
    IF start >= Len(s) THEN s
    ELSE LET pivot == s[start + 1]
             left == BinarySearch(s, pivot, 0, start)
             placed == SubSeq(s, 1, left) \o <<pivot>> \o SubSeq(s, left + 1, start)
                       \o SubSeq(s, start + 2, Len(s))
         IN  BinaryInsertionSort(placed, start + 1)

SortByCreatedAt(s) ==
    IF Len(s) < 2 THEN s
    ELSE LET descending == CompareCreatedAt(s[2], s[1]) < 0
             run == RunLength(s, 2, descending)
             made == IF descending
                     THEN Reverse(SubSeq(s, 1, run)) \o SubSeq(s, run + 1, Len(s))
                     ELSE s
         IN  BinaryInsertionSort(made, run)

(***************************************************************************)
(* Documents into records: the two snapshot callbacks' docs.map(...).      *)
(***************************************************************************)
\* A document is [id |-> its id, data |-> its fields]; a field the document
\* lacks reads as undefined.
Field(data, k) == IF k \in DOMAIN data THEN data[k] ELSE Undefined

NormalizeCategory(d) ==
    [id |-> d.id,
     name |-> OrElse(Field(d.data, "name"), Str("Unnamed")),
     imageUrl |-> OrElse(Field(d.data, "imageUrl"), Str("")),
     createdAt |-> Field(d.data, "createdAt")]

NormalizeProduct(d) ==
    LET data == d.data
        imageUrls == OrElse(Field(data, "imageUrls"),
                            IF Truthy(Field(data, "imageUrl"))
                            THEN Arr(<<Field(data, "imageUrl").s>>)
                            ELSE Arr(<<>>))
    IN  [id |-> d.id,
         name |-> OrElse(Field(data, "name"), Str("Unnamed Product")),
         price |-> OrElse(Field(data, "price"), Num(0)),
         halfPrice |-> Field(data, "halfPrice"),
         quantity |-> OrElse(Field(data, "quantity"), Str("1")),
         description |-> Field(data, "description"),
         imageUrl |-> OrElse(Field(data, "imageUrl"), Str("")),
         imageUrls |-> IF Len(imageUrls.a) > 0 THEN imageUrls ELSE Undefined,
         createdAt |-> Field(data, "createdAt"),
         isVeg |-> Nullish(Field(data, "isVeg"), Bool(TRUE))]

\* The ids of a list of records, as a set.
Ids(s) == {s[i].id : i \in 1..Len(s)}


\* A faulty variant of Put: the other entries are dropped.
PutAlone(f, k, v) == [x \in {k} |-> v]
\* f with key k set to v: { ...prev, [k]: v }.
Put(f, k, v) == [x \in (DOMAIN f) \cup {k} |-> IF x = k THEN v ELSE f[x]]
\* The empty object {}.
EmptyMap == [x \in {} |-> FALSE]

(***************************************************************************)
(* The cart engine: the updaters that the cart handlers pass to setCart,   *)
(* and the derived totals.                                                 *)
(***************************************************************************)
\* A CartItem (interface CartItem): id, portion and quantity are plain
\* values, the fields copied from the product are JavaScript values.
CartItemKeys ==
    {"id", "name", "price", "halfPrice", "quantity", "portion", "description",
     "imageUrl", "imageUrls", "isVeg", "serves"}
\* The keys of a CartItem whose value may be undefined.
OptionalKeys == {"halfPrice", "description", "imageUrl", "imageUrls", "serves"}

Matches(i, id, portion) == i.id = id /\ i.portion = portion
HasLine(c, id, portion) == \E k \in 1..Len(c) : Matches(c[k], id, portion)
\* The quantity of the first line for (id, portion); 0 when there is none.
QtyOf(c, id, portion) ==
    IF HasLine(c, id, portion)
    THEN c[CHOOSE k \in 1..Len(c) :
               /\ Matches(c[k], id, portion)
               /\ \A j \in 1..(k - 1) : ~Matches(c[j], id, portion)].quantity
    ELSE 0

Max(a, b) == IF a >= b THEN a ELSE b

RECURSIVE Units(_)
\* The sum of the quantities of a cart (the badge of the cart button).
Units(c) == IF c = <<>> THEN 0 ELSE c[1].quantity + Units(Tail(c))

\* x / 2.  The prices of the model are even, so the quotient is exact.
HalfOf(x) == x \div 2

\* A faulty variant of ResolvePrice: ?? in the place of ||.
ResolvePriceNullish(product, portion) ==
    IF portion = "half"
    THEN Nullish(product.halfPrice, Num(HalfOf(product.price.n)))
    ELSE product.price
\* const price = tempPortion === "half"
\*   ? selectedProduct.halfPrice || selectedProduct.price / 2 : selectedProduct.price
ResolvePrice(product, portion) ==
    IF portion = "half"
    THEN OrElse(product.halfPrice, Num(HalfOf(product.price.n)))
    ELSE product.price

NewItem(product, portion, quantity) ==
    [id |-> product.id,
     name |-> product.name,
     price |-> ResolvePrice(product, portion),
     halfPrice |-> product.halfPrice,
     quantity |-> quantity,
     portion |-> portion,
     description |-> product.description,
     imageUrl |-> product.imageUrl,
     imageUrls |-> product.imageUrls,
     isVeg |-> product.isVeg,
     serves |-> product.quantity]

\* { ...i, quantity: q }
WithQuantity(i, q) == [i EXCEPT !.quantity = q]

\* Faulty variants of AddToCart: one that never looks for the line, one that
\* overwrites the quantity of the line it finds.
AddToCartAppending(prev, newItem, tempQty) == Append(prev, newItem)
AddToCartReplacing(prev, newItem, tempQty) ==
    IF HasLine(prev, newItem.id, newItem.portion)
    THEN [k \in 1..Len(prev) |->
            IF Matches(prev[k], newItem.id, newItem.portion)
            THEN WithQuantity(prev[k], tempQty)
            ELSE prev[k]]
    ELSE Append(prev, newItem)
\* A faulty variant of AddToCart: the line found takes the fields of the new
\* item.
AddToCartRepricing(prev, newItem, tempQty) ==
    IF HasLine(prev, newItem.id, newItem.portion)
    THEN [k \in 1..Len(prev) |->
            IF Matches(prev[k], newItem.id, newItem.portion)
            THEN WithQuantity(newItem, prev[k].quantity + tempQty)
            ELSE prev[k]]
    ELSE Append(prev, newItem)
\* The updater of handleAddToCart.
AddToCart(prev, newItem, tempQty) ==
    IF HasLine(prev, newItem.id, newItem.portion)
    THEN [k \in 1..Len(prev) |->
            IF Matches(prev[k], newItem.id, newItem.portion)
            THEN WithQuantity(prev[k], prev[k].quantity + tempQty)
            ELSE prev[k]]
    ELSE Append(prev, newItem)

\* A faulty variant of Increase: every line is raised, matching or not.
IncreaseEvery(prev, id, portion) ==
    [k \in 1..Len(prev) |-> WithQuantity(prev[k], prev[k].quantity + 1)]
\* The updater of increaseQty.
Increase(prev, id, portion) ==
    [k \in 1..Len(prev) |->
        IF Matches(prev[k], id, portion)
        THEN WithQuantity(prev[k], prev[k].quantity + 1)
        ELSE prev[k]]

\* The updater of decreaseQty: map with Math.max(1, quantity - 1), then filter.
Decrease(prev, id, portion) ==
    SelectSeq([k \in 1..Len(prev) |->
                  IF Matches(prev[k], id, portion)
                  THEN WithQuantity(prev[k], Max(1, prev[k].quantity - 1))
                  ELSE prev[k]],
              LAMBDA i : i.quantity > 0)

\* A faulty variant of Remove: every line of the product goes, whatever its
\* portion.
RemoveProduct(prev, id, portion) == SelectSeq(prev, LAMBDA i : i.id # id)
\* The updater of removeFromCart.
Remove(prev, id, portion) == SelectSeq(prev, LAMBDA i : ~Matches(i, id, portion))

(***************************************************************************)
(* The mirror of the cart in localStorage, key "fastfood_cart".            *)
(* A stored text is modelled by what JSON.parse makes of it:               *)
(*   absent  - the key is not set (getItem returns null)                   *)
(*   empty   - the empty string                                            *)
(*   garbage - a text that is not JSON                                     *)
(*   object  - JSON that is not an array                                   *)
(*   array   - a JSON array; items are its objects, each the function from *)
(*             the keys written to their values                            *)
(***************************************************************************)
Stored(kind, items) == [kind |-> kind, items |-> items]
Absent == Stored("absent", <<>>)

\* A faulty variant of StringifyItem: no optional key is written.
StringifyItemDroppingOptional(item) ==
    [k \in {x \in DOMAIN item : x \notin OptionalKeys} |-> item[k]]
\* JSON.stringify of one item: a key whose value is undefined is not written.
StringifyItem(item) ==
    [k \in {x \in DOMAIN item :
               ~(x \in OptionalKeys /\ item[x].t = "undefined")} |-> item[k]]
JSONStringify(c) == Stored("array", [k \in 1..Len(c) |-> StringifyItem(c[k])])

\* A parsed object read as a CartItem: a key that is not there reads undefined.
ReadItem(obj) == [k \in CartItemKeys |-> IF k \in DOMAIN obj THEN obj[k] ELSE Undefined]
\* JSON.parse, and Array.isArray of its result.
JSONParse(text) ==
    [throws |-> text.kind \in {"empty", "garbage"},
     isArray |-> text.kind = "array",
     value |-> IF text.kind = "array"
               THEN [k \in 1..Len(text.items) |-> ReadItem(text.items[k])]
               ELSE <<>>]

\* localStorage.setItem(key, text), localStorage.removeItem(key).
SetItem(store, text) == text
RemoveItem(store) == Absent

\* A faulty variant of Rehydrate: JSON.parse outside of any try.
RehydrateUnguarded(saved) ==
    LET parsed == JSONParse(saved)
    IN  [set |-> saved.kind \notin {"absent", "empty"} /\ ~parsed.throws,
         cart |-> parsed.value,
         logged |-> FALSE,
         thrown |-> saved.kind \notin {"absent", "empty"} /\ parsed.throws]
\* The rehydration effect: whether setCart is called and with what, whether
\* the error is logged, and whether an exception leaves the effect.
Rehydrate(saved) ==
    IF saved.kind \in {"absent", "empty"}
    THEN [set |-> FALSE, cart |-> <<>>, logged |-> FALSE, thrown |-> FALSE]
    ELSE LET parsed == JSONParse(saved)
         IN  IF parsed.throws
             THEN [set |-> FALSE, cart |-> <<>>, logged |-> TRUE, thrown |-> FALSE]
             ELSE [set |-> TRUE,
                   cart |-> IF parsed.isArray THEN parsed.value ELSE <<>>,
                   logged |-> FALSE,
                   thrown |-> FALSE]

\* A faulty variant of Persist: nothing is written.
PersistSkipping(store, c) == store
\* The persistence effect: localStorage.setItem("fastfood_cart", JSON.stringify(cart)).
Persist(store, c) == SetItem(store, JSONStringify(c))


(***************************************************************************)
(* The state of the component, and of what it talks to.                    *)
(***************************************************************************)
VARIABLES
    phase,                  \* "unmounted", "rendered" (first render committed,
                            \* its effects not yet run) or "mounted"
    pendingEffects,         \* the effects of the last commit still to run
    categories,             \* useState<Category[]>([])
    productsByCat,          \* useState<Record<string, Product[]>>({})
    loadingProductsByCat,   \* useState<Record<string, boolean>>({})
    activeCategory,         \* useState<string>("")
    loadingCategories,      \* useState(true)
    categoriesSub,          \* the listener on the category collection:
                            \* "none", "live" or "errored"
    productSubs,            \* the listeners of the last run of the product
                            \* effect, in the order of `unsubs`
    staleSubs,              \* the product listeners of earlier runs of the
                            \* effect, each open or unsubscribed
    deliveryChargeSub,      \* the listener on settings/deliveryCharge and
                            \* the last thing it delivered
    selectedProduct,        \* useState<Product | null>(null)
    tempQuantity,           \* useState(1)
    tempPortion,            \* useState<"half" | "full">("full")
    cart,                   \* useState<CartItem[]>([])
    cartOpen,               \* useState<boolean>(false)
    orderMode,              \* useState<"offline" | "online">("offline")
    customerName,           \* useState("")
    customerPhone,          \* useState(""), as the sequence of its characters
    deliveryAddress,        \* useState("")
    deliveryCharge,         \* useState<number>(50)
    localStorage,           \* what localStorage holds under "fastfood_cart"
    uncaught,               \* an exception has left a handler or an effect
    last,                   \* history: the last operation and what it met
    boot,                   \* history: what this instance started from
    adminSettings,          \* the state of the admin console's
                            \* DeliveryChargeSettings: deliveryCharge,
                            \* isEditing, tempValue (as its characters)
    pendingSaves,           \* the amounts of the setDoc calls of handleSave
                            \* that have not settled yet
    settingsDoc             \* the document settings/deliveryCharge

syncVars ==
    <<categories, productsByCat, loadingProductsByCat, activeCategory,
      loadingCategories, categoriesSub, productSubs, staleSubs, deliveryChargeSub>>
dialogVars == <<selectedProduct, tempQuantity, tempPortion>>
orderVars ==
    <<cartOpen, orderMode, customerName, customerPhone, deliveryAddress,
      deliveryCharge>>
adminVars == <<adminSettings, pendingSaves, settingsDoc>>
vars ==
    <<phase, pendingEffects, syncVars, dialogVars, cart, orderVars, localStorage,
      uncaught, last, boot, adminVars>>

\* selectedProduct === null
NoProduct == [id |-> ""]
\* The fallback and initial delivery charge.
DefaultDeliveryCharge == 50

\* Every piece of component state as useState initialises it.
InitialState ==
    /\ categories = <<>>
    /\ productsByCat = EmptyMap
    /\ loadingProductsByCat = EmptyMap
    /\ activeCategory = ""
    /\ loadingCategories = TRUE
    /\ selectedProduct = NoProduct
    /\ tempQuantity = 1
    /\ tempPortion = "full"
    /\ cart = <<>>
    /\ cartOpen = FALSE
    /\ orderMode = "offline"
    /\ customerName = ""
    /\ customerPhone = <<>>
    /\ deliveryAddress = ""
    /\ deliveryCharge = DefaultDeliveryCharge

\* What the browser may hold under the key before the page is first opened:
\* nothing, or a text the page did not write.
ForeignTexts ==
    {Absent, Stored("empty", <<>>), Stored("garbage", <<>>), Stored("object", <<>>)}

\* A fresh instance: every piece of state is initialised again.
FreshState ==
    /\ categories' = <<>>
    /\ productsByCat' = EmptyMap
    /\ loadingProductsByCat' = EmptyMap
    /\ activeCategory' = ""
    /\ loadingCategories' = TRUE
    /\ selectedProduct' = NoProduct
    /\ tempQuantity' = 1
    /\ tempPortion' = "full"
    /\ cart' = <<>>
    /\ cartOpen' = FALSE
    /\ orderMode' = "offline"
    /\ customerName' = ""
    /\ customerPhone' = <<>>
    /\ deliveryAddress' = ""
    /\ deliveryCharge' = DefaultDeliveryCharge

NoBoot == [stage |-> "none"]
\* No listener on the delivery charge: the component is not mounted.
NoChargeDocument == [exists |-> FALSE, data |-> EmptyMap]
NoChargeListener == [status |-> "none", received |-> FALSE, latest |-> NoChargeDocument]
\* The initial delivery charge of the admin console.
AdminDefaultCharge == 50
\* DeliveryChargeSettings after construction: useState<number>(50),
\* useState(false), useState<string>("").
AdminInitialState ==
    [deliveryCharge |-> AdminDefaultCharge, isEditing |-> FALSE, tempValue |-> <<>>]

Init ==
    /\ phase = "unmounted"
    /\ pendingEffects = {}
    /\ InitialState
    /\ categoriesSub = "none"
    /\ productSubs = <<>>
    /\ staleSubs = {}
    /\ deliveryChargeSub = NoChargeListener
    /\ localStorage \in ForeignTexts
    /\ uncaught = FALSE
    /\ last = [op |-> "none"]
    /\ boot = [stage |-> "unmounted", prevKnown |-> FALSE, prevSettled |-> FALSE,
               prevCart |-> <<>>, saved |-> localStorage]
    /\ adminSettings = AdminInitialState
    /\ pendingSaves = <<>>
    /\ settingsDoc = NoChargeDocument

\* The state the handlers run in: mounted, and no effect waiting to run.
Idle == phase = "mounted" /\ pendingEffects = {}

(***************************************************************************)
(* Mounting, the effects, unmounting.                                      *)
(***************************************************************************)
\* The first render of a fresh instance.  The listeners of an instance that
\* is gone hold the setters of that instance: they are no listeners of this.
Mount ==
    /\ phase = "unmounted"
    /\ phase' = "rendered"
    /\ boot' = [boot EXCEPT !.stage = "rendered", !.saved = localStorage]
    /\ last' = [op |-> "mount"]
    /\ staleSubs' = {}
    /\ UNCHANGED <<pendingEffects, categories, productsByCat, loadingProductsByCat,
                   activeCategory, loadingCategories, categoriesSub, productSubs,
                   deliveryChargeSub, dialogVars, cart, orderVars, localStorage,
                   uncaught, adminVars>>

\* The effects of the first render, in the order of the source: the listener
\* on the delivery charge is opened; the category listener is opened; the
\* product effect returns at once (no category yet); the cart is read back;
\* the cart of the first render, [], is written.
MountEffects ==
    /\ phase = "rendered"
    /\ LET re == Rehydrate(localStorage)
       IN  /\ cart' = IF re.set THEN re.cart ELSE cart
           /\ pendingEffects' = IF re.set THEN {"persist"} ELSE {}
           /\ uncaught' = (uncaught \/ re.thrown)
           /\ localStorage' = IF re.thrown THEN localStorage
                              ELSE Persist(localStorage, cart)
           /\ last' = [op |-> "mountEffects", logged |-> re.logged]
    /\ phase' = "mounted"
    /\ categoriesSub' = "live"
    /\ deliveryChargeSub' = [NoChargeListener EXCEPT !.status = "live"]
    /\ boot' = [boot EXCEPT !.stage = "started"]
    /\ UNCHANGED <<categories, productsByCat, loadingProductsByCat, activeCategory,
                   loadingCategories, productSubs, staleSubs, dialogVars, orderVars,
                   adminVars>>

\* A faulty variant of ProductsEffect: the listeners of the run before are
\* kept next to the new ones.
ProductsEffectMerging(cats, loading) ==
    [loading |-> [c \in (DOMAIN loading) \cup Ids(cats) |->
                     IF c \in Ids(cats) THEN TRUE ELSE loading[c]],
     subs |-> productSubs \o [k \in 1..Len(cats) |-> [cat |-> cats[k].id, live |-> TRUE]]]
\* A faulty variant of ProductsEffect: no category is marked as loading.
ProductsEffectKeepingFlags(cats, loading) ==
    [loading |-> loading,
     subs |-> [k \in 1..Len(cats) |-> [cat |-> cats[k].id, live |-> TRUE]]]
\* The product effect: its previous run is cleaned up (every listener of it
\* is released), and unless the list is empty every category is marked as
\* loading and listened to.
ProductsEffect(cats, loading) ==
    IF Len(cats) = 0
    THEN [loading |-> loading, subs |-> <<>>]
    ELSE [loading |-> [c \in (DOMAIN loading) \cup Ids(cats) |->
                          IF c \in Ids(cats) THEN TRUE ELSE loading[c]],
          subs |-> [k \in 1..Len(cats) |-> [cat |-> cats[k].id, live |-> TRUE]]]

\* A faulty variant of Cleanup: the listeners are dropped still open.
CleanupForgetting(subs) == {[cat |-> subs[k].cat, open |-> TRUE] : k \in 1..Len(subs)}
\* The cleanup of a run of the product effect, unsubs.forEach((unsub) =>
\* unsub()): every listener of the run is unsubscribed.
Cleanup(subs) == {[cat |-> subs[k].cat, open |-> FALSE] : k \in 1..Len(subs)}

\* React runs the effects whose dependencies the last commit changed; an
\* effect that runs again is cleaned up first.
FlushEffects ==
    /\ phase = "mounted"
    /\ pendingEffects # {}
    /\ IF "products" \in pendingEffects
       THEN LET run == ProductsEffect(categories, loadingProductsByCat)
            IN  /\ staleSubs' = staleSubs \cup Cleanup(productSubs)
                /\ loadingProductsByCat' = run.loading
                /\ productSubs' = run.subs
       ELSE UNCHANGED <<loadingProductsByCat, productSubs, staleSubs>>
    /\ IF "persist" \in pendingEffects
       THEN localStorage' = Persist(localStorage, cart)
       ELSE UNCHANGED localStorage
    /\ pendingEffects' = {}
    /\ last' = [op |-> "flushEffects", ran |-> pendingEffects]
    /\ UNCHANGED <<phase, categories, productsByCat, activeCategory,
                   loadingCategories, categoriesSub, deliveryChargeSub, dialogVars,
                   cart, orderVars, uncaught, boot, adminVars>>

\* The component is unmounted (the customer leaves the page): the cleanups
\* release every listener, the state is gone, localStorage stays.
Unmount ==
    /\ phase # "unmounted"
    /\ phase' = "unmounted"
    /\ pendingEffects' = {}
    /\ FreshState
    /\ categoriesSub' = "none"
    /\ deliveryChargeSub' = NoChargeListener
    /\ staleSubs' = staleSubs \cup Cleanup(productSubs)
    /\ productSubs' = <<>>
    /\ boot' = [stage |-> "unmounted", prevKnown |-> TRUE,
                prevSettled |-> (phase = "mounted" /\ "persist" \notin pendingEffects),
                prevCart |-> cart, saved |-> localStorage]
    /\ last' = [op |-> "unmount"]
    /\ UNCHANGED <<localStorage, uncaught, adminVars>>


(***************************************************************************)
(* The realtime callbacks.                                                 *)
(***************************************************************************)
\* The callbacks of the category listener were made by the first render, and
\* the effect that made them never runs again: the activeCategory they read
\* is the one of that render.
ClosureActiveCategory == ""

\* A snapshot of the category collection.
CategoriesSnapshot(docs) ==
    /\ Idle
    /\ categoriesSub = "live"
    /\ LET sorted == SortByCreatedAt([k \in 1..Len(docs) |-> NormalizeCategory(docs[k])])
       IN  /\ categories' = sorted
           /\ activeCategory' = IF Len(sorted) > 0 /\ ClosureActiveCategory = ""
                                THEN sorted[1].id
                                ELSE activeCategory
    /\ loadingCategories' = FALSE
    /\ pendingEffects' = {"products"}
    /\ last' = [op |-> "categoriesSnapshot"]
    /\ UNCHANGED <<phase, productsByCat, loadingProductsByCat, categoriesSub,
                   productSubs, staleSubs, deliveryChargeSub, dialogVars, cart,
                   orderVars, localStorage, uncaught, boot, adminVars>>

\* A faulty variant of CategoriesError: the list is cleared.
CategoriesErrorClearing ==
    /\ Idle
    /\ categoriesSub = "live"
    /\ categories' = <<>>
    /\ loadingCategories' = FALSE
    /\ categoriesSub' = "errored"
    /\ last' = [op |-> "categoriesError"]
    /\ UNCHANGED <<phase, pendingEffects, productsByCat, loadingProductsByCat,
                   activeCategory, productSubs, staleSubs, deliveryChargeSub,
                   dialogVars, cart, orderVars, localStorage, uncaught, boot, adminVars>>
\* The category listener fails; Firestore ends a listener that has failed.
CategoriesError ==
    /\ Idle
    /\ categoriesSub = "live"
    /\ loadingCategories' = FALSE
    /\ categoriesSub' = "errored"
    /\ last' = [op |-> "categoriesError"]
    /\ UNCHANGED <<phase, pendingEffects, categories, productsByCat,
                   loadingProductsByCat, activeCategory, productSubs, staleSubs,
                   deliveryChargeSub, dialogVars, cart, orderVars, localStorage,
                   uncaught, boot, adminVars>>

\* A faulty variant of SnapshotFlag: the flag is flipped.
SnapshotFlagToggling(loading, c) ==
    Put(loading, c, IF c \in DOMAIN loading THEN ~loading[c] ELSE FALSE)
\* What a product snapshot makes of the loading flags.
SnapshotFlag(loading, c) == Put(loading, c, FALSE)

\* A snapshot on the k-th product listener.
ProductsSnapshot(k, docs) ==
    /\ Idle
    /\ k \in 1..Len(productSubs)
    /\ productSubs[k].live
    /\ LET c == productSubs[k].cat
           sorted == SortByCreatedAt([j \in 1..Len(docs) |-> NormalizeProduct(docs[j])])
       IN  /\ productsByCat' = Put(productsByCat, c, sorted)
           /\ loadingProductsByCat' = SnapshotFlag(loadingProductsByCat, c)
           /\ last' = [op |-> "productsSnapshot", cat |-> c,
                       wasLoading |-> (c \in DOMAIN loadingProductsByCat
                                       /\ loadingProductsByCat[c]),
                       first |-> (c \notin DOMAIN productsByCat),
                       docs |-> docs]
    /\ UNCHANGED <<phase, pendingEffects, categories, activeCategory,
                   loadingCategories, categoriesSub, productSubs, staleSubs,
                   deliveryChargeSub, dialogVars, cart, orderVars, localStorage,
                   uncaught, boot, adminVars>>

\* A faulty variant of ErrorFlag: the flags are left as they are.
ErrorFlagKeeping(loading, c) == loading
\* What the error callback of a product listener makes of the loading flags:
\* setLoadingProductsByCat(prev => ({ ...prev, [cat.id]: false })).
ErrorFlag(loading, c) == Put(loading, c, FALSE)

\* The k-th product listener fails; Firestore ends a listener that has failed.
ProductsError(k) ==
    /\ Idle
    /\ k \in 1..Len(productSubs)
    /\ productSubs[k].live
    /\ LET c == productSubs[k].cat
       IN  /\ loadingProductsByCat' = ErrorFlag(loadingProductsByCat, c)
           /\ last' = [op |-> "productsError", cat |-> c,
                       wasLoading |-> (c \in DOMAIN loadingProductsByCat
                                       /\ loadingProductsByCat[c])]
    /\ productSubs' = [productSubs EXCEPT ![k].live = FALSE]
    /\ UNCHANGED <<phase, pendingEffects, categories, productsByCat, activeCategory,
                   loadingCategories, categoriesSub, staleSubs, deliveryChargeSub,
                   dialogVars, cart, orderVars, localStorage, uncaught, boot, adminVars>>

\* A snapshot for a listener of an earlier run of the product effect.
\* Firestore calls no callback of a listener that has been unsubscribed; a
\* listener left open would run the callback of its run, and React drops the
\* updates of a component that is unmounted.
StaleSnapshot(s, docs) ==
    /\ phase = "unmounted" \/ Idle
    /\ s \in staleSubs
    /\ LET sorted == SortByCreatedAt([j \in 1..Len(docs) |-> NormalizeProduct(docs[j])])
       IN  IF s.open /\ phase = "mounted"
           THEN /\ productsByCat' = Put(productsByCat, s.cat, sorted)
                /\ loadingProductsByCat' = SnapshotFlag(loadingProductsByCat, s.cat)
           ELSE UNCHANGED <<productsByCat, loadingProductsByCat>>
    /\ last' = [op |-> "staleSnapshot", cat |-> s.cat, size |-> Len(docs)]
    /\ UNCHANGED <<phase, pendingEffects, categories, activeCategory,
                   loadingCategories, categoriesSub, productSubs, staleSubs,
                   deliveryChargeSub, dialogVars, cart, orderVars, localStorage,
                   uncaught, boot, adminVars>>

\* A faulty variant of ChargeOf: the amount is taken as it comes.
ChargeOfUnchecked(snap) == Field(snap.data, "amount").n
\* What the delivery charge listener makes of a snapshot of the document:
\* snap.exists() && typeof snap.data()?.amount === "number" ? amount : 50.
ChargeOf(snap) ==
    IF snap.exists /\ Field(snap.data, "amount").t = "number"
    THEN Field(snap.data, "amount").n
    ELSE DefaultDeliveryCharge

\* A snapshot of settings/deliveryCharge.
DeliveryChargeSnapshot(snap) ==
    /\ Idle
    /\ deliveryChargeSub.status = "live"
    /\ deliveryCharge' = ChargeOf(snap)
    /\ deliveryChargeSub' = [deliveryChargeSub EXCEPT !.received = TRUE, !.latest = snap]
    /\ last' = [op |-> "deliveryChargeSnapshot"]
    /\ UNCHANGED <<phase, pendingEffects, categories, productsByCat,
                   loadingProductsByCat, activeCategory, loadingCategories,
                   categoriesSub, productSubs, staleSubs, dialogVars, cart,
                   cartOpen, orderMode, customerName, customerPhone,
                   deliveryAddress, localStorage, uncaught, boot, adminVars>>

\* The delivery charge listener fails; Firestore ends a listener that has
\* failed.
DeliveryChargeError ==
    /\ Idle
    /\ deliveryChargeSub.status = "live"
    /\ deliveryCharge' = DefaultDeliveryCharge
    /\ deliveryChargeSub' = [deliveryChargeSub EXCEPT !.status = "errored"]
    /\ last' = [op |-> "deliveryChargeError"]
    /\ UNCHANGED <<phase, pendingEffects, categories, productsByCat,
                   loadingProductsByCat, activeCategory, loadingCategories,
                   categoriesSub, productSubs, staleSubs, dialogVars, cart,
                   cartOpen, orderMode, customerName, customerPhone,
                   deliveryAddress, localStorage, uncaught, boot, adminVars>>

(***************************************************************************)
(* The handlers of the page.  The presentation layer is their caller and   *)
(* is not modelled: a handler may be called with any argument, whether or  *)
(* not the page shows the button for it at that moment.                    *)
(***************************************************************************)
\* The flag the page consults: loadingProductsByCat[c] ?? false.
LoadingFlag(c) ==
    IF c \in DOMAIN loadingProductsByCat THEN loadingProductsByCat[c] ELSE FALSE
isCurrentCategoryLoading == LoadingFlag(activeCategory)
\* productsByCat[activeCategory] || [], under the filter "all".
currentProducts ==
    IF activeCategory \in DOMAIN productsByCat THEN productsByCat[activeCategory] ELSE <<>>

\* The sidebar's onClick: setActiveCategory(cat.id).
SelectCategory(c) ==
    /\ Idle
    /\ c \in Ids(categories)
    /\ activeCategory' = c
    /\ last' = [op |-> "selectCategory", cat |-> c]
    /\ UNCHANGED <<phase, pendingEffects, categories, productsByCat,
                   loadingProductsByCat, loadingCategories, categoriesSub,
                   productSubs, staleSubs, deliveryChargeSub, dialogVars, cart,
                   orderVars, localStorage, uncaught, boot, adminVars>>

\* A product card's onClick.
SelectProduct(k) ==
    /\ Idle
    /\ k \in 1..Len(currentProducts)
    /\ selectedProduct' = currentProducts[k]
    /\ tempPortion' = "full"
    /\ tempQuantity' = 1
    /\ last' = [op |-> "selectProduct"]
    /\ UNCHANGED <<phase, pendingEffects, syncVars, cart, orderVars, localStorage,
                   uncaught, boot, adminVars>>

\* The product dialog's onOpenChange: setSelectedProduct(null).
CloseProductDialog ==
    /\ Idle
    /\ selectedProduct # NoProduct
    /\ selectedProduct' = NoProduct
    /\ last' = [op |-> "closeProductDialog"]
    /\ UNCHANGED <<phase, pendingEffects, syncVars, tempQuantity, tempPortion, cart,
                   orderVars, localStorage, uncaught, boot, adminVars>>

\* The plate buttons: setTempPortion("full"), setTempPortion("half").
SetTempPortion(portion) ==
    /\ Idle
    /\ tempPortion # portion
    /\ tempPortion' = portion
    /\ last' = [op |-> "setTempPortion"]
    /\ UNCHANGED <<phase, pendingEffects, syncVars, selectedProduct, tempQuantity,
                   cart, orderVars, localStorage, uncaught, boot, adminVars>>

\* The stepper of the dialog: Math.max(1, tempQuantity - 1), tempQuantity + 1.
StepTempQuantity(by) ==
    /\ Idle
    /\ Max(1, tempQuantity + by) # tempQuantity
    /\ tempQuantity + by <= MaxTempQty
    /\ tempQuantity' = Max(1, tempQuantity + by)
    /\ last' = [op |-> "stepTempQuantity"]
    /\ UNCHANGED <<phase, pendingEffects, syncVars, selectedProduct, tempPortion,
                   cart, orderVars, localStorage, uncaught, boot, adminVars>>

\* A click's setCart: the render and the persistence effect follow at once.
SetCart(next) ==
    /\ cart' = next
    /\ localStorage' = Persist(localStorage, next)

\* Without a selected product the handler returns at once.
handleAddToCart ==
    /\ Idle
    /\ selectedProduct # NoProduct
    /\ Units(cart) + tempQuantity <= MaxUnits
    /\ SetCart(AddToCart(cart, NewItem(selectedProduct, tempPortion, tempQuantity),
                         tempQuantity))
    /\ selectedProduct' = NoProduct
    /\ tempQuantity' = 1
    /\ tempPortion' = "full"
    /\ last' = [op |-> "add", id |-> selectedProduct.id, portion |-> tempPortion,
                n |-> tempQuantity, product |-> selectedProduct,
                prevQty |-> QtyOf(cart, selectedProduct.id, tempPortion),
                prevLen |-> Len(cart)]
    /\ boot' = NoBoot
    /\ UNCHANGED <<phase, pendingEffects, syncVars, orderVars, uncaught, adminVars>>

\* The ids a handler may be called with: those of the products the model's
\* catalogue ever holds.
ProductIds == {"p1", "p2"}
Portions == {"half", "full"}

increaseQty(id, portion) ==
    /\ Idle
    /\ Units(Increase(cart, id, portion)) <= MaxUnits
    /\ SetCart(Increase(cart, id, portion))
    /\ last' = [op |-> "increase", id |-> id, portion |-> portion,
                prevQty |-> QtyOf(cart, id, portion), prevLen |-> Len(cart)]
    /\ boot' = NoBoot
    /\ UNCHANGED <<phase, pendingEffects, syncVars, dialogVars, orderVars, uncaught, adminVars>>

decreaseQty(id, portion) ==
    /\ Idle
    /\ SetCart(Decrease(cart, id, portion))
    /\ last' = [op |-> "decrease", id |-> id, portion |-> portion,
                prevQty |-> QtyOf(cart, id, portion), prevLen |-> Len(cart)]
    /\ boot' = NoBoot
    /\ UNCHANGED <<phase, pendingEffects, syncVars, dialogVars, orderVars, uncaught, adminVars>>

removeFromCart(id, portion) ==
    /\ Idle
    /\ SetCart(Remove(cart, id, portion))
    /\ last' = [op |-> "remove", id |-> id, portion |-> portion,
                prevQty |-> QtyOf(cart, id, portion), prevLen |-> Len(cart)]
    /\ boot' = NoBoot
    /\ UNCHANGED <<phase, pendingEffects, syncVars, dialogVars, orderVars, uncaught, adminVars>>

\* customerPhone.replace(/\D/g, "")
Digits == {"0", "1", "2", "3", "4", "5", "6", "7", "8", "9"}
StripNonDigits(s) == SelectSeq(s, LAMBDA ch : ch \in Digits)
\* The two checks of handleProceedToBuy in delivery mode.
DeliveryDetailsMissing ==
    customerName = "" \/ customerPhone = <<>> \/ deliveryAddress = ""
\* A faulty variant of ValidPhone: shorter numbers pass.
ValidPhoneUpToTen == Len(StripNonDigits(customerPhone)) <= 10
ValidPhone == Len(StripNonDigits(customerPhone)) = 10

\* The order type buttons: setOrderMode("offline"), setOrderMode("online").
SetOrderMode(mode) ==
    /\ Idle
    /\ orderMode # mode
    /\ orderMode' = mode
    /\ last' = [op |-> "setOrderMode"]
    /\ UNCHANGED <<phase, pendingEffects, syncVars, dialogVars, cart, cartOpen,
                   customerName, customerPhone, deliveryAddress, deliveryCharge,
                   localStorage, uncaught, boot, adminVars>>

\* The name field's onChange: setCustomerName(e.target.value).
SetCustomerName(text) ==
    /\ Idle
    /\ customerName # text
    /\ customerName' = text
    /\ last' = [op |-> "setCustomerName"]
    /\ UNCHANGED <<phase, pendingEffects, syncVars, dialogVars, cart, cartOpen,
                   orderMode, customerPhone, deliveryAddress, deliveryCharge,
                   localStorage, uncaught, boot, adminVars>>

\* s.slice(0, 10)
Slice10(s) == SubSeq(s, 1, IF Len(s) < 10 THEN Len(s) ELSE 10)

\* The phone field's onChange: e.target.value.replace(/\D/g, "").slice(0, 10).
SetCustomerPhone(text) ==
    /\ Idle
    /\ customerPhone # Slice10(StripNonDigits(text))
    /\ customerPhone' = Slice10(StripNonDigits(text))
    /\ last' = [op |-> "setCustomerPhone"]
    /\ UNCHANGED <<phase, pendingEffects, syncVars, dialogVars, cart, cartOpen,
                   orderMode, customerName, deliveryAddress, deliveryCharge,
                   localStorage, uncaught, boot, adminVars>>

\* The address field's onChange: setDeliveryAddress(e.target.value).
SetDeliveryAddress(text) ==
    /\ Idle
    /\ deliveryAddress # text
    /\ deliveryAddress' = text
    /\ last' = [op |-> "setDeliveryAddress"]
    /\ UNCHANGED <<phase, pendingEffects, syncVars, dialogVars, cart, cartOpen,
                   orderMode, customerName, customerPhone, deliveryCharge,
                   localStorage, uncaught, boot, adminVars>>

\* A faulty variant of Subtotal: a line counts by its place in the cart.
SubtotalByPlace(c) ==
    IF c = <<>> THEN 0 ELSE c[1].price.n * c[1].quantity * Len(c)
                            + (IF Len(c) > 1 THEN c[Len(c)].price.n * c[Len(c)].quantity ELSE 0)
\* cart.reduce((acc, item) => acc + item.price * item.quantity, 0)
RECURSIVE Subtotal(_)
Subtotal(c) ==
    IF c = <<>> THEN 0 ELSE c[1].price.n * c[1].quantity + Subtotal(Tail(c))
\* A faulty variant of TotalAmount: the charge is added in both modes.
TotalAmountAlwaysCharging(c, mode, charge) == Subtotal(c) + charge
\* orderMode === "online" ? subtotal + deliveryCharge : subtotal
TotalAmount(c, mode, charge) ==
    IF mode = "online" THEN Subtotal(c) + charge ELSE Subtotal(c)
subtotal == Subtotal(cart)
totalAmount == TotalAmount(cart, orderMode, deliveryCharge)

(***************************************************************************)
(* The order message.  A text is the sequence of its lines: joining with   *)
(* "\n" is concatenation, "\n\n" leaves an empty line.  Two characters of  *)
(* the message are outside of ASCII and are written by their code points.  *)
(***************************************************************************)
RupeeSign == "<U+20B9>"
EmDash == "<U+2014>"
\* x.toFixed(2) of an integer amount.
ToFixed2(x) == ToString(x) \o ".00"
\* The characters of the phone field as one string.
RECURSIVE Text(_)
Text(chars) == IF chars = <<>> THEN "" ELSE Head(chars) \o Text(Tail(chars))

\* Faulty variants of ItemLine: one without the quantity, one that shows every
\* serving label.
ItemLineWithoutQuantity(item) ==
    "*" \o item.name.s \o (IF item.portion = "half" THEN " (Half)" ELSE " (Full)")
        \o (IF Truthy(item.serves) /\ item.serves # Str("1")
            THEN " [" \o item.serves.s \o "]" ELSE "")
        \o "* " \o EmDash \o " " \o RupeeSign
        \o ToFixed2(item.price.n * item.quantity)
ItemLineServesAlways(item) ==
    "*" \o item.name.s \o (IF item.portion = "half" THEN " (Half)" ELSE " (Full)")
        \o (IF Truthy(item.serves) THEN " [" \o item.serves.s \o "]" ELSE "")
        \o (IF item.quantity > 1 THEN " x" \o ToString(item.quantity) ELSE "")
        \o "* " \o EmDash \o " " \o RupeeSign
        \o ToFixed2(item.price.n * item.quantity)
\* The line of one cart item.
ItemLine(item) ==
    LET portionLabel == IF item.portion = "half" THEN " (Half)" ELSE " (Full)"
        qtyLabel == IF item.quantity > 1 THEN " x" \o ToString(item.quantity) ELSE ""
        serves == IF Truthy(item.serves) /\ item.serves # Str("1")
                  THEN " [" \o item.serves.s \o "]"
                  ELSE ""
    IN  "*" \o item.name.s \o portionLabel \o serves \o qtyLabel \o "* "
            \o EmDash \o " " \o RupeeSign \o ToFixed2(item.price.n * item.quantity)
\* cart.map(...).join("\n")
OrderDetails(c) == [k \in 1..Len(c) |-> ItemLine(c[k])]

\* Math.floor(100000 + Math.random() * 900000): the ends of its range.
OrderNumbers == {100000, 999999}

\* A faulty variant of ComposeMessage: the customer details are left out of
\* a delivery order.
ComposeMessageWithoutCustomer(c, mode, charge, name, phone, address, newOrderId) ==
    <<"*New Order*", "",
      "*Order ID:* FF-" \o ToString(newOrderId),
      "*Mode:* " \o (IF mode = "online" THEN "Delivery (Online)" ELSE "Takeaway (Offline)"),
      "">>
    \o OrderDetails(c)
    \o <<"", "*Subtotal: " \o RupeeSign \o ToFixed2(Subtotal(c)) \o "*">>
    \o (IF mode = "online"
        THEN <<"*Delivery Charge: " \o RupeeSign \o ToString(charge) \o "*",
               "*Total: " \o RupeeSign \o ToFixed2(TotalAmount(c, mode, charge)) \o "*">>
        ELSE <<"*Total: " \o RupeeSign \o ToFixed2(TotalAmount(c, mode, charge)) \o "*">>)
    \o <<"", "Please confirm my order.">>
\* The message handleProceedToBuy composes, from what the render holds.
ComposeMessage(c, mode, charge, name, phone, address, newOrderId) ==
    <<"*New Order*", "",
      "*Order ID:* FF-" \o ToString(newOrderId),
      "*Mode:* " \o (IF mode = "online" THEN "Delivery (Online)" ELSE "Takeaway (Offline)"),
      "">>
    \o OrderDetails(c)
    \o <<"", "*Subtotal: " \o RupeeSign \o ToFixed2(Subtotal(c)) \o "*">>
    \o (IF mode = "online"
        THEN <<"*Delivery Charge: " \o RupeeSign \o ToString(charge) \o "*",
               "*Total: " \o RupeeSign \o ToFixed2(TotalAmount(c, mode, charge)) \o "*",
               "",
               "*Customer Details:*",
               "Name: " \o name,
               "Phone: " \o Text(phone),
               "Address: " \o address>>
        ELSE <<"*Total: " \o RupeeSign \o ToFixed2(TotalAmount(c, mode, charge)) \o "*">>)
    \o <<"", "Please confirm my order.">>

\* A faulty variant of WindowOpen: the link is opened twice.
WindowOpenTwice(message) ==
    <<[url |-> "https://wa.me/917369068632?text=", text |-> message, target |-> "_blank"],
      [url |-> "https://wa.me/917369068632?text=", text |-> message, target |-> "_blank"]>>
\* The windows the hand-off opens: window.open(`https://wa.me/917369068632?text=
\* ${encodeURIComponent(message)}`, "_blank").
WindowOpen(message) ==
    <<[url |-> "https://wa.me/917369068632?text=", text |-> message, target |-> "_blank"]>>

\* What handleProceedToBuy leaves under the key: removeItem in the handler,
\* then the persistence effect of the render that setCart([]) causes.
AfterCheckout(store) == Persist(RemoveItem(store), <<>>)

\* last.opened is the sequence of the windows the handler opened; the other
\* fields of last are what the handler met.
handleProceedToBuy ==
    /\ Idle
    /\ \E newOrderId \in OrderNumbers :
        LET met == [op |-> "checkout", cart |-> cart, mode |-> orderMode,
                    charge |-> deliveryCharge, name |-> customerName,
                    phone |-> customerPhone, address |-> deliveryAddress,
                    store |-> localStorage, orderId |-> newOrderId]
        IN
        IF Len(cart) = 0
        THEN /\ last' = [met EXCEPT !.orderId = 0] @@ [outcome |-> "empty", opened |-> <<>>]
             /\ UNCHANGED <<cart, orderVars, localStorage, boot>>
        ELSE IF orderMode = "online" /\ (DeliveryDetailsMissing \/ ~ValidPhone)
        THEN /\ last' = [met EXCEPT !.orderId = 0] @@ [outcome |-> "alert", opened |-> <<>>]
             /\ UNCHANGED <<cart, orderVars, localStorage, boot>>
        ELSE /\ cart' = <<>>
             /\ localStorage' = AfterCheckout(localStorage)
             /\ cartOpen' = FALSE
             /\ customerName' = ""
             /\ customerPhone' = <<>>
             /\ deliveryAddress' = ""
             /\ orderMode' = "offline"
             /\ UNCHANGED deliveryCharge
             /\ last' = met @@
                   [outcome |-> "sent",
                    opened |-> WindowOpen(ComposeMessage(cart, orderMode, deliveryCharge,
                                  customerName, customerPhone, deliveryAddress,
                                  newOrderId))]
             /\ boot' = NoBoot
    /\ UNCHANGED <<phase, pendingEffects, syncVars, dialogVars, uncaught, adminVars>>


(***************************************************************************)
(* The documents the realtime source delivers in the model.                *)
(***************************************************************************)
Rolls == [id |-> "c1", data |-> [name |-> Str("Rolls"), createdAt |-> Stamp(1)]]
Drinks ==
    [id |-> "c2",
     data |-> [name |-> Str("Drinks"), imageUrl |-> Str("d.jpg"), createdAt |-> Stamp(2)]]

\* A product as the admin console writes it, with a half price.
PaneerRoll ==
    [id |-> "p1",
     data |-> [name |-> Str("Paneer Roll"), price |-> Num(120), halfPrice |-> Num(70),
               quantity |-> Str("1"), imageUrls |-> Arr(<<"a.jpg">>),
               imageUrl |-> Str("a.jpg"), isVeg |-> Bool(TRUE), createdAt |-> Stamp(2)]]
\* A product written by another hand: a half price of 0, no description, no
\* image, no serving label.
EggRoll ==
    [id |-> "p2",
     data |-> [name |-> Str("Egg Roll"), price |-> Num(100), halfPrice |-> Num(0),
               isVeg |-> Bool(FALSE), createdAt |-> Stamp(1)]]
Lassi ==
    [id |-> "p3",
     data |-> [name |-> Str("Lassi"), price |-> Num(60), createdAt |-> Stamp(3)]]

(***************************************************************************)
(* The storefront with one category: the cart and its mirror.              *)
(***************************************************************************)
CartCategorySnapshots == {<<Rolls>>}
CartProductSnapshots == {<<PaneerRoll, EggRoll>>}

Next ==
    \/ Mount
    \/ MountEffects
    \/ FlushEffects
    \/ Unmount
    \/ \E docs \in CartCategorySnapshots :
           categories = <<>> /\ CategoriesSnapshot(docs)
    \/ \E k \in 1..Len(productSubs), docs \in CartProductSnapshots :
           productsByCat = EmptyMap /\ ProductsSnapshot(k, docs)
    \/ \E k \in 1..Len(currentProducts) : SelectProduct(k)
    \/ CloseProductDialog
    \/ \E portion \in Portions : SetTempPortion(portion)
    \/ \E by \in {-1, 1} : StepTempQuantity(by)
    \/ handleAddToCart
    \/ \E id \in ProductIds, portion \in Portions : increaseQty(id, portion)
    \/ \E id \in ProductIds, portion \in Portions : decreaseQty(id, portion)
    \/ \E id \in ProductIds, portion \in Portions : removeFromCart(id, portion)
    \/ handleProceedToBuy

Spec == Init /\ [][Next]_vars


(***************************************************************************)
(* The storefront with one product, of any price and half price: what add  *)
(* stores as the unit price.                                               *)
(***************************************************************************)
PricedProduct(price, half) ==
    [id |-> "p1",
     data |-> [name |-> Str("Paneer Roll"), price |-> Num(price), halfPrice |-> half,
               createdAt |-> Stamp(2)]]
UnpricedHalfProduct(price) ==
    [id |-> "p1",
     data |-> [name |-> Str("Paneer Roll"), price |-> Num(price), createdAt |-> Stamp(2)]]
PricedSnapshots ==
    {<<PricedProduct(price, half)>> :
        price \in {0, 120}, half \in {Null, Num(0), Num(50), Num(70)}}
    \cup {<<UnpricedHalfProduct(price)>> : price \in {0, 120}}

NextPrice ==
    \/ Mount
    \/ MountEffects
    \/ FlushEffects
    \/ \E docs \in CartCategorySnapshots :
           categories = <<>> /\ CategoriesSnapshot(docs)
    \/ \E k \in 1..Len(productSubs), docs \in PricedSnapshots :
           productsByCat = EmptyMap /\ ProductsSnapshot(k, docs)
    \/ \E k \in 1..Len(currentProducts) : SelectProduct(k)
    \/ \E portion \in Portions : SetTempPortion(portion)
    \/ handleAddToCart

SpecPrice == Init /\ [][NextPrice]_vars

(***************************************************************************)
(* The storefront where orders are placed: two products, the order form,   *)
(* checkout.  The delivery charge setting is silent.                       *)
(***************************************************************************)
\* A product with a serving label other than "1".
FamilyPack ==
    [id |-> "p4",
     data |-> [name |-> Str("Family Pack"), price |-> Num(300), halfPrice |-> Num(160),
               quantity |-> Str("Serves 3"), isVeg |-> Bool(TRUE), createdAt |-> Stamp(1)]]
OrderProductSnapshots == {<<PaneerRoll, FamilyPack>>}

\* What the listener on settings/deliveryCharge may deliver: no document, a
\* document with a number (0 too), with a text, without an amount.
ChargeDocument(amount) == [exists |-> TRUE, data |-> [amount |-> amount]]
ChargeDocumentWithoutAmount == [exists |-> TRUE, data |-> [updatedBy |-> Str("admin")]]
ChargeSnapshots ==
    {NoChargeDocument, ChargeDocument(Num(30)), ChargeDocument(Num(0)),
     ChargeDocument(Str("60")), ChargeDocumentWithoutAmount}

\* What the customer may type into the form.
NameInputs == {"", "Asha"}
AddressInputs == {"", "12 Lake Road"}
NineDigits == <<"9", "8", "7", "6", "5", "4", "3", "2", "1">>
PhoneInputs ==
    {<<>>,
     NineDigits,
     <<"9", "8", "7", "6", "5", "-", "4", "3", "2", "1", "0">>,
     NineDigits \o <<"0", "1", "2">>}

NextOrder ==
    \/ Mount
    \/ MountEffects
    \/ FlushEffects
    \/ \E docs \in CartCategorySnapshots :
           categories = <<>> /\ CategoriesSnapshot(docs)
    \/ \E k \in 1..Len(productSubs), docs \in OrderProductSnapshots :
           productsByCat = EmptyMap /\ ProductsSnapshot(k, docs)
    \/ \E k \in 1..Len(currentProducts) : SelectProduct(k)
    \/ \E portion \in Portions : SetTempPortion(portion)
    \/ Units(cart) + tempQuantity <= MaxOrderUnits /\ handleAddToCart
    \/ \E mode \in {"offline", "online"} : SetOrderMode(mode)
    \/ \E text \in NameInputs : SetCustomerName(text)
    \/ \E text \in PhoneInputs : SetCustomerPhone(text)
    \/ \E text \in AddressInputs : SetDeliveryAddress(text)
    \/ handleProceedToBuy

SpecOrder == Init /\ [][NextOrder]_vars

(***************************************************************************)
(* The same storefront with the delivery charge setting coming, going and  *)
(* failing, and a customer who fills the form in full.                     *)
(***************************************************************************)
NextCharge ==
    \/ Mount
    \/ MountEffects
    \/ FlushEffects
    \/ Unmount
    \/ \E docs \in CartCategorySnapshots :
           categories = <<>> /\ CategoriesSnapshot(docs)
    \/ \E k \in 1..Len(productSubs), docs \in OrderProductSnapshots :
           productsByCat = EmptyMap /\ ProductsSnapshot(k, docs)
    \/ \E snap \in ChargeSnapshots : DeliveryChargeSnapshot(snap)
    \/ DeliveryChargeError
    \/ \E k \in 1..Len(currentProducts) : SelectProduct(k)
    \/ Units(cart) + tempQuantity <= MaxOrderUnits /\ handleAddToCart
    \/ \E mode \in {"offline", "online"} : SetOrderMode(mode)
    \/ \E text \in NameInputs \ {""} : SetCustomerName(text)
    \/ \E text \in PhoneInputs \ {<<>>, NineDigits} : SetCustomerPhone(text)
    \/ \E text \in AddressInputs \ {""} : SetDeliveryAddress(text)
    \/ handleProceedToBuy

SpecCharge == Init /\ [][NextCharge]_vars

(***************************************************************************)
(* The catalogue read-model: categories and products come and go.          *)
(***************************************************************************)
SyncCategorySnapshots == {<<>>, <<Rolls>>, <<Drinks>>, <<Rolls, Drinks>>}
SyncProductSnapshots(c) ==
    IF c = "c1" THEN {<<>>, <<PaneerRoll>>, <<PaneerRoll, EggRoll>>}
    ELSE {<<>>, <<Lassi>>}

\* What comes late, for a listener of an earlier run.
StaleProductSnapshots(c) == IF c = "c1" THEN {<<PaneerRoll>>} ELSE {<<Lassi>>}

NextSync ==
    \/ Mount
    \/ MountEffects
    \/ FlushEffects
    \/ Unmount
    \/ \E docs \in SyncCategorySnapshots : CategoriesSnapshot(docs)
    \/ CategoriesError
    \/ \E k \in 1..Len(productSubs) :
           \E docs \in SyncProductSnapshots(productSubs[k].cat) :
               ProductsSnapshot(k, docs)
    \/ \E k \in 1..Len(productSubs) : ProductsError(k)
    \/ \E s \in staleSubs :
           \E docs \in StaleProductSnapshots(s.cat) : StaleSnapshot(s, docs)
    \/ \E c \in Ids(categories) : SelectCategory(c)

SpecSync == Init /\ [][NextSync]_vars


(***************************************************************************)
(* The storefront receiving product documents of every shape: with and     *)
(* without an image list, a legacy image, a price, a serving label, a veg  *)
(* flag.                                                                   *)
(***************************************************************************)
\* The image list of a document: missing, null, empty, or of two images.
ImageListFields ==
    {EmptyMap, [imageUrls |-> Null], [imageUrls |-> Arr(<<>>)],
     [imageUrls |-> Arr(<<"a.jpg", "b.jpg">>)]}
\* The legacy single image of a document: missing, empty, or an image.
LegacyImageFields == {EmptyMap, [imageUrl |-> Str("")], [imageUrl |-> Str("c.jpg")]}
\* The rest of a document: nothing but a name; a price, a serving label and
\* a veg flag; a price of 0, an empty serving label and a veg flag of null.
OtherFields ==
    {[name |-> Str("Chaat")],
     [name |-> Str("Chaat"), price |-> Num(80), quantity |-> Str("2"),
      isVeg |-> Bool(FALSE)],
     [name |-> Str("Chaat"), price |-> Num(0), quantity |-> Str(""), isVeg |-> Null]}
ShapedSnapshots ==
    {<<[id |-> "p1", data |-> list @@ legacy @@ other]>> :
        list \in ImageListFields, legacy \in LegacyImageFields, other \in OtherFields}

NextNormalize ==
    \/ Mount
    \/ MountEffects
    \/ FlushEffects
    \/ \E docs \in CartCategorySnapshots :
           categories = <<>> /\ CategoriesSnapshot(docs)
    \/ \E k \in 1..Len(productSubs), docs \in ShapedSnapshots :
           ProductsSnapshot(k, docs)
    \/ \E k \in 1..Len(currentProducts) : SelectProduct(k)

SpecNormalize == Init /\ [][NextNormalize]_vars

(***************************************************************************)
(* The storefront with three categories, one of them without a creation    *)
(* timestamp.  A snapshot delivers its documents in the order of their     *)
(* ids, which is the order of a query without orderBy.                     *)
(***************************************************************************)
Starters ==
    [id |-> "c1", data |-> [name |-> Str("Starters"), createdAt |-> Stamp(1)]]
\* A category written without a creation timestamp.
Specials ==
    [id |-> "c2", data |-> [name |-> Str("Specials")]]
Desserts ==
    [id |-> "c3", data |-> [name |-> Str("Desserts"), createdAt |-> Stamp(2)]]
OrderingSnapshots ==
    {<<>>, <<Starters>>, <<Specials>>, <<Desserts>>, <<Starters, Specials>>,
     <<Starters, Desserts>>, <<Specials, Desserts>>, <<Starters, Specials, Desserts>>}

NextOrdering ==
    \/ Mount
    \/ MountEffects
    \/ FlushEffects
    \/ \E docs \in OrderingSnapshots : CategoriesSnapshot(docs)
    \/ \E c \in Ids(categories) : SelectCategory(c)

SpecOrdering == Init /\ [][NextOrdering]_vars

(***************************************************************************)
(* The storefront while the admin console changes the price and the name   *)
(* of a product: the product listener delivers the product now as it was,  *)
(* now as it has become.                                                   *)
(***************************************************************************)
PaneerRollRepriced ==
    [id |-> "p1",
     data |-> [name |-> Str("Paneer Roll Masala"), price |-> Num(150),
               halfPrice |-> Num(90), quantity |-> Str("1"),
               imageUrls |-> Arr(<<"a.jpg">>), imageUrl |-> Str("a.jpg"),
               isVeg |-> Bool(TRUE), createdAt |-> Stamp(2)]]
RepricedSnapshots == {<<PaneerRoll>>, <<PaneerRollRepriced>>}

NextReprice ==
    \/ Mount
    \/ MountEffects
    \/ FlushEffects
    \/ \E docs \in CartCategorySnapshots :
           categories = <<>> /\ CategoriesSnapshot(docs)
    \/ \E k \in 1..Len(productSubs), docs \in RepricedSnapshots :
           ProductsSnapshot(k, docs)
    \/ \E k \in 1..Len(currentProducts) : SelectProduct(k)
    \/ \E portion \in Portions : SetTempPortion(portion)
    \/ \E by \in {-1, 1} : StepTempQuantity(by)
    \/ handleAddToCart

SpecReprice == Init /\ [][NextReprice]_vars

(***************************************************************************)
(* The admin console's DeliveryChargeSettings, the one writer of            *)
(* settings/deliveryCharge, and a storefront that listens to the document. *)
(* The storefront's catalogue is silent here.                              *)
(***************************************************************************)
\* The result of parseInt that is no number.
NaN == JSVal("nan", 0, "", <<>>)
IsNaN(v) == v.t = "nan"
DigitChars == <<"0", "1", "2", "3", "4", "5", "6", "7", "8", "9">>
DigitValue(ch) == (CHOOSE d \in 1..10 : DigitChars[d] = ch) - 1
RECURSIVE TrimStart(_)
\* The text without its leading white space.
TrimStart(s) == IF s # <<>> /\ Head(s) = " " THEN TrimStart(Tail(s)) ELSE s
RECURSIVE LeadingDigits(_)
\* The longest prefix of the text that is all digits.
LeadingDigits(s) ==
    IF s = <<>> \/ Head(s) \notin Digits THEN <<>>
    ELSE <<Head(s)>> \o LeadingDigits(Tail(s))
RECURSIVE DecimalValue(_)
DecimalValue(ds) ==
    IF ds = <<>> THEN 0
    ELSE DecimalValue(SubSeq(ds, 1, Len(ds) - 1)) * 10 + DigitValue(ds[Len(ds)])
\* parseInt(text): leading white space is skipped, a sign is taken, then the
\* digits up to the first character that is none; NaN when there is no digit.
ParseInt(text) ==
    LET t == TrimStart(text)
        signed == t # <<>> /\ Head(t) \in {"+", "-"}
        ds == LeadingDigits(IF signed THEN Tail(t) ELSE t)
    IN  IF ds = <<>> THEN NaN
        ELSE IF signed /\ Head(t) = "-" THEN Num(0 - DecimalValue(ds))
        ELSE Num(DecimalValue(ds))
RECURSIVE NumberToString(_)
\* n.toString() of an integer, as its characters.
NumberToString(n) ==
    IF n < 0 THEN <<"-">> \o NumberToString(0 - n)
    ELSE IF n < 10 THEN <<DigitChars[n + 1]>>
    ELSE NumberToString(n \div 10) \o <<DigitChars[(n % 10) + 1]>>

\* A faulty variant of ValidAmount: any number passes.
ValidAmountAnyNumber(value) == ~IsNaN(value)
\* The check of handleSave, negated: !(isNaN(value) || value < 0).
ValidAmount(value) == ~(IsNaN(value) \/ value.n < 0)

\* setDoc(ref, { amount: value }, { merge: true }) on the document.
SetDocMerge(document, value) ==
    [exists |-> TRUE, data |-> Put(document.data, "amount", Num(value))]
\* The document as the admin console's own listener sees it: with the writes
\* of this console that have not settled yet.
RECURSIVE LocalDocument(_, _)
LocalDocument(document, saves) ==
    IF saves = <<>> THEN document
    ELSE LocalDocument(SetDocMerge(document, Head(saves)), Tail(saves))

\* The snapshot callback of the admin console's listener: the amount is
\* taken when the document exists and the amount is a number.
AdminChargeSnapshot ==
    /\ LET snap == LocalDocument(settingsDoc, pendingSaves)
       IN  adminSettings' =
               IF snap.exists /\ Field(snap.data, "amount").t = "number"
               THEN [adminSettings EXCEPT !.deliveryCharge = Field(snap.data, "amount").n]
               ELSE adminSettings
    /\ last' = [op |-> "adminChargeSnapshot"]
    /\ UNCHANGED <<phase, pendingEffects, syncVars, dialogVars, cart, orderVars,
                   localStorage, uncaught, boot, pendingSaves, settingsDoc>>

\* The Change button: setTempValue(deliveryCharge.toString()); setIsEditing(true).
AdminChange ==
    /\ ~adminSettings.isEditing
    /\ adminSettings' = [adminSettings EXCEPT
                             !.tempValue = NumberToString(adminSettings.deliveryCharge),
                             !.isEditing = TRUE]
    /\ last' = [op |-> "adminChange"]
    /\ UNCHANGED <<phase, pendingEffects, syncVars, dialogVars, cart, orderVars,
                   localStorage, uncaught, boot, pendingSaves, settingsDoc>>

\* The amount field's onChange: setTempValue(e.target.value).
SetTempValue(text) ==
    /\ adminSettings.isEditing
    /\ adminSettings' = [adminSettings EXCEPT !.tempValue = text]
    /\ last' = [op |-> "setTempValue"]
    /\ UNCHANGED <<phase, pendingEffects, syncVars, dialogVars, cart, orderVars,
                   localStorage, uncaught, boot, pendingSaves, settingsDoc>>

\* The Cancel button: setIsEditing(false).
AdminCancel ==
    /\ adminSettings.isEditing
    /\ adminSettings' = [adminSettings EXCEPT !.isEditing = FALSE]
    /\ last' = [op |-> "adminCancel"]
    /\ UNCHANGED <<phase, pendingEffects, syncVars, dialogVars, cart, orderVars,
                   localStorage, uncaught, boot, pendingSaves, settingsDoc>>

\* The most setDoc calls of the admin console in flight at one time.
MaxPendingSaves == 1

\* handleSave up to its await: the text is parsed and checked; an amount that
\* passes is handed to setDoc, any other is answered with an alert.
handleSave ==
    /\ adminSettings.isEditing
    /\ LET value == ParseInt(adminSettings.tempValue)
       IN  /\ pendingSaves' = IF ValidAmount(value)
                              THEN Append(pendingSaves, value.n)
                              ELSE pendingSaves
           /\ last' = [op |-> "handleSave", text |-> adminSettings.tempValue,
                       alerted |-> ~ValidAmount(value)]
    /\ Len(pendingSaves') <= MaxPendingSaves
    /\ UNCHANGED <<phase, pendingEffects, syncVars, dialogVars, cart, orderVars,
                   localStorage, uncaught, boot, adminSettings, settingsDoc>>

\* handleSave after its await, the write having been taken:
\* setIsEditing(false).
SaveResolved ==
    /\ pendingSaves # <<>>
    /\ settingsDoc' = SetDocMerge(settingsDoc, Head(pendingSaves))
    /\ pendingSaves' = Tail(pendingSaves)
    /\ adminSettings' = [adminSettings EXCEPT !.isEditing = FALSE]
    /\ last' = [op |-> "saveResolved", amount |-> Head(pendingSaves)]
    /\ UNCHANGED <<phase, pendingEffects, syncVars, dialogVars, cart, orderVars,
                   localStorage, uncaught, boot>>

\* handleSave after its await, the write having been refused: the catch
\* block logs and alerts, the document and the editor are left alone.
SaveRejected ==
    /\ pendingSaves # <<>>
    /\ pendingSaves' = Tail(pendingSaves)
    /\ last' = [op |-> "saveRejected", amount |-> Head(pendingSaves)]
    /\ UNCHANGED <<phase, pendingEffects, syncVars, dialogVars, cart, orderVars,
                   localStorage, uncaught, boot, adminSettings, settingsDoc>>

\* What the admin may type into the amount field, a field of type number:
\* nothing, 0, -5, 4.5.
AmountInputs == {<<>>, <<"0">>, <<"-", "5">>, <<"4", ".", "5">>}

NextAdmin ==
    \/ Mount
    \/ MountEffects
    \/ DeliveryChargeSnapshot(settingsDoc)
    \/ DeliveryChargeError
    \/ AdminChargeSnapshot
    \/ AdminChange
    \/ \E text \in AmountInputs : SetTempValue(text)
    \/ AdminCancel
    \/ handleSave
    \/ SaveResolved
    \/ SaveRejected

SpecAdmin == Init /\ [][NextAdmin]_vars

(***************************************************************************)
(* Properties.                                                             *)
(***************************************************************************)
\* The line of c for (id, portion).
LineOf(c, id, portion) == c[CHOOSE k \in 1..Len(c) : Matches(c[k], id, portion)]
LinesFor(c, id, portion) == {k \in 1..Len(c) : Matches(c[k], id, portion)}
\* The startup texts that are no cart: unparseable, or not an array.
CorruptKinds == {"empty", "garbage", "object"}
\* This instance has run its startup effects and no cart handler since.
Started == boot.stage = "started"

\* C1: the cart never holds two lines with the same (product id, portion),
\* and every line it holds has a quantity of at least 1.
C1_CartWellFormed ==
    /\ \A k \in 1..Len(cart) : Cardinality(LinesFor(cart, cart[k].id, cart[k].portion)) = 1
    /\ \A k \in 1..Len(cart) : cart[k].quantity >= 1
\* decrease has run on a line of quantity 1 of a cart of several lines.
C1_Witness ==
    /\ last.op = "decrease"
    /\ last.prevQty = 1
    /\ Len(cart) >= 2

\* C2: decrease on a line of quantity 1 removes the line.
C2_DecreaseAtOneRemoves ==
    (last.op = "decrease" /\ last.prevQty = 1)
        => ~HasLine(cart, last.id, last.portion)

\* C3: add on a pair without a line appends exactly one line, of the quantity
\* asked for; add on a pair with a line adds the quantity asked for to that
\* line and appends nothing.  (add(a) then add(b) leaves one line of a + b.)
C3_AddMerges ==
    last.op = "add" =>
        /\ Cardinality(LinesFor(cart, last.id, last.portion)) = 1
        /\ QtyOf(cart, last.id, last.portion) = last.prevQty + last.n
        /\ Len(cart) = last.prevLen + (IF last.prevQty = 0 THEN 1 ELSE 0)
\* add has met a line for its pair.
C3_Witness ==
    /\ last.op = "add"
    /\ last.prevQty >= 1
    /\ LineOf(cart, last.id, last.portion).quantity = last.prevQty + last.n

\* The unit price of the line that the last add appended.
AddedPrice == LineOf(cart, last.id, last.portion).price
AddedLine == last.op = "add" /\ last.prevQty = 0

\* C4, as claimed: for half the unit price is the half price whenever one is
\* set, 0 included, and full price / 2 only when none is set; for full it is
\* the full price.
C4_HalfPriceWheneverSet ==
    AddedLine =>
        AddedPrice =
            IF last.portion = "full" THEN last.product.price
            ELSE IF last.product.halfPrice.t = "number" THEN last.product.halfPrice
            ELSE Num(HalfOf(last.product.price.n))
\* C4, amended: for half the unit price is the half price whenever one is set
\* and is not 0, and full price / 2 when none is set or it is 0; for full it
\* is the full price.
C4_HalfPriceWhenNotZero ==
    AddedLine =>
        AddedPrice =
            IF last.portion = "full" THEN last.product.price
            ELSE IF last.product.halfPrice.t = "number" /\ last.product.halfPrice.n # 0
                 THEN last.product.halfPrice
            ELSE Num(HalfOf(last.product.price.n))
\* add of a half portion of a product whose half price is 0.
C4_Witness ==
    /\ AddedLine
    /\ last.portion = "half"
    /\ last.product.halfPrice = Num(0)
    /\ last.product.price = Num(120)
    /\ AddedPrice = Num(60)

\* C5: once a checkout has handed the order off and the effects have run, the
\* key of the cart is absent from localStorage.
C5_KeyAbsentAfterCheckout ==
    (last.op = "checkout" /\ last.outcome = "sent" /\ Idle)
        => localStorage = Absent

\* C6: a fresh instance started after an instance whose persistence effects
\* had run holds the cart that instance held: the same lines in the same
\* order, every field the same.
C6_RoundTrip ==
    (Started /\ "persist" \notin pendingEffects /\ boot.prevKnown /\ boot.prevSettled)
        => cart = boot.prevCart
\* A cart of two lines, one of them with fields that are undefined, is back.
C6_Witness ==
    /\ Started
    /\ "persist" \notin pendingEffects
    /\ boot.prevKnown
    /\ boot.prevSettled
    /\ Len(boot.prevCart) >= 2
    /\ \E k \in 1..Len(cart) : cart[k].description = Undefined
    /\ \E k \in 1..Len(cart) : cart[k].imageUrls # Undefined

\* C7: a stored text that cannot be parsed, or is no array, leaves the cart
\* empty after startup, and no exception leaves the effect.
C7_CorruptStartsEmpty ==
    (Started /\ boot.saved.kind \in CorruptKinds) => (cart = <<>> /\ ~uncaught)
\* The startup effects have met a text that is not JSON, and logged it.
C7_Witness ==
    /\ Started
    /\ boot.saved.kind = "garbage"
    /\ last.op = "mountEffects"
    /\ last.logged

\* C8, as claimed: a corrupt text found at startup stays under the key as
\* long as no cart-mutating operation is invoked.
C8_CorruptEntryLeftInPlace ==
    (boot.stage \in {"rendered", "started"} /\ boot.saved.kind \in CorruptKinds)
        => localStorage = boot.saved
\* C8, amended: a corrupt text found at startup stays under the key only
\* until the startup effects run; from then on, as long as no cart-mutating
\* operation is invoked, the key holds the serialization of the empty cart.
C8_CorruptEntryOverwritten ==
    (boot.stage \in {"rendered", "started"} /\ boot.saved.kind \in CorruptKinds)
        => localStorage = IF Started THEN JSONStringify(<<>>) ELSE boot.saved
\* The startup effects have run on a text that is JSON but no array.
C8_Witness ==
    /\ Started
    /\ boot.saved.kind = "object"
    /\ localStorage = Stored("array", <<>>)

\* C9, as claimed: a loading flag that is false does not become true while
\* its category stays in the list.
C9_FlagNeverReturnsToTrue ==
    [][\A c \in DOMAIN loadingProductsByCat :
          (/\ ~loadingProductsByCat[c]
           /\ c \in Ids(categories)
           /\ c \in Ids(categories'))
              => (c \in DOMAIN loadingProductsByCat' /\ ~loadingProductsByCat'[c])]_vars
\* C9, amended: a loading flag that is false becomes true only when the
\* product effect runs again, that is after a snapshot of the category
\* collection, and then for a category of the list; no product snapshot and
\* no product listener error makes it true.
C9_OnlyResubscriptionRaisesFlag ==
    [][\A c \in (DOMAIN loadingProductsByCat) \cap (DOMAIN loadingProductsByCat') :
          (~loadingProductsByCat[c] /\ loadingProductsByCat'[c])
              => /\ "products" \in pendingEffects
                 /\ last'.op = "flushEffects"
                 /\ c \in Ids(categories)]_vars
\* A product snapshot has arrived for a category whose flag was false already.
C9_Witness ==
    /\ last.op = "productsSnapshot"
    /\ ~last.wasLoading
    /\ ~last.first
    /\ last.cat \in Ids(categories)
    /\ ~LoadingFlag(last.cat)

\* The product listener of c has failed.
Failed(c) == \E k \in 1..Len(productSubs) : productSubs[k].cat = c /\ ~productSubs[k].live

\* C10, as claimed: a category of the list for which no product snapshot has
\* been received has its loading flag true.
C10_LoadingBeforeFirstSnapshot ==
    \A c \in Ids(categories) : c \notin DOMAIN productsByCat => LoadingFlag(c)
\* C10, amended: once the product effect has run for the list, a category of
\* the list for which no product snapshot has been received and whose
\* listener has not failed has its loading flag true.
C10_LoadingUntilSnapshotOrError ==
    (phase = "mounted" /\ "products" \notin pendingEffects) =>
        \A c \in Ids(categories) :
            (c \notin DOMAIN productsByCat /\ ~Failed(c)) => LoadingFlag(c)
\* One category has its products, another of the list is still waiting.
C10_Witness ==
    /\ Idle
    /\ DOMAIN productsByCat # {}
    /\ \E c \in Ids(categories) :
           c \notin DOMAIN productsByCat /\ ~Failed(c) /\ LoadingFlag(c)

\* C11, as claimed: an error on a category's product listener leaves the
\* loading flag of the category as it was, so a category that was loading
\* stays loading.
C11_ErrorKeepsLoading ==
    (last.op = "productsError" /\ last.wasLoading) => LoadingFlag(last.cat)
\* C11, amended: an error on a category's product listener sets the loading
\* flag of the category to false, whatever it was.
C11_ErrorClearsLoading ==
    last.op = "productsError" =>
        (last.cat \in DOMAIN loadingProductsByCat /\ ~LoadingFlag(last.cat))
\* The listener of a category that was loading, with no products yet, failed.
C11_Witness ==
    /\ last.op = "productsError"
    /\ last.wasLoading
    /\ last.cat \in Ids(categories)
    /\ last.cat \notin DOMAIN productsByCat
    /\ ~LoadingFlag(last.cat)

\* C12: an error on the category listener or on a product listener leaves the
\* category list and the product-by-category map as they were.
C12_ErrorsKeepSyncedState ==
    [][last'.op \in {"categoriesError", "productsError"}
          => (categories' = categories /\ productsByCat' = productsByCat)]_vars
\* A product listener has failed after the category listener had: the list
\* and the products that were there are there.
C12_Witness ==
    /\ last.op = "productsError"
    /\ categoriesSub = "errored"
    /\ Len(categories) = 2
    /\ last.cat \in DOMAIN productsByCat
    /\ Len(productsByCat[last.cat]) = 2

\* C13: a product snapshot for a listener that has been torn down (the
\* product effect ran again, or the component unmounted) changes neither the
\* product-by-category map nor the loading flags.
C13_StaleSnapshotIgnored ==
    [][last'.op = "staleSnapshot"
          => (productsByCat' = productsByCat
              /\ loadingProductsByCat' = loadingProductsByCat)]_vars
\* A snapshot came for a torn-down listener of a category that is in the list
\* and has a new listener, with other products than the map holds.
C13_Witness ==
    /\ last.op = "staleSnapshot"
    /\ Idle
    /\ \E k \in 1..Len(productSubs) : productSubs[k].cat = last.cat
    /\ last.cat \in DOMAIN productsByCat
    /\ Len(productsByCat[last.cat]) # last.size

\* The number of product listeners on c that are opened and not unsubscribed.
Subscriptions(c) ==
    Cardinality({k \in 1..Len(productSubs) : productSubs[k].cat = c})
    + Cardinality({s \in staleSubs : s.cat = c /\ s.open})
SubscribedIds ==
    {productSubs[k].cat : k \in 1..Len(productSubs)}
    \cup {s.cat : s \in {t \in staleSubs : t.open}}
RECURSIVE SumFromEnd(_)
SumFromEnd(xs) ==
    IF Len(xs) = 0 THEN 0 ELSE SumFromEnd(SubSeq(xs, 1, Len(xs) - 1)) + xs[Len(xs)]
\* C15: with the cart and the delivery charge held, the total in delivery
\* mode less the total in pickup mode is the delivery charge, the total in
\* pickup mode is the subtotal, and the subtotal is the sum over the lines of
\* unit price times quantity.
C15_TotalsDifferByCharge ==
    /\ TotalAmount(cart, "online", deliveryCharge)
           - TotalAmount(cart, "offline", deliveryCharge) = deliveryCharge
    /\ TotalAmount(cart, "offline", deliveryCharge) = subtotal
    /\ subtotal = SumFromEnd([k \in 1..Len(cart) |-> cart[k].price.n * cart[k].quantity])
    /\ totalAmount = IF orderMode = "online" THEN subtotal + deliveryCharge ELSE subtotal
\* A cart of two lines in delivery mode under a charge that is not the default.
C15_Witness ==
    /\ Len(cart) = 2
    /\ orderMode = "online"
    /\ deliveryCharge = 30
    /\ totalAmount = 450

\* The form passes the checks of delivery mode.
FormWasValid ==
    /\ last.name # ""
    /\ last.address # ""
    /\ Len(StripNonDigits(last.phone)) = 10
\* C16: the delivery charge is 50 until a snapshot of the setting has come,
\* 50 after a snapshot without the document or with an amount that is no
\* number, 50 after a listener error, and else the amount of the latest
\* snapshot; and a checkout of a cart that is not empty, in pickup mode or
\* with a valid form, is handed off whatever the state of the setting.
C16_ChargeFallsBackToDefault ==
    /\ deliveryCharge =
           IF /\ deliveryChargeSub.status = "live"
              /\ deliveryChargeSub.received
              /\ deliveryChargeSub.latest.exists
              /\ "amount" \in DOMAIN deliveryChargeSub.latest.data
              /\ deliveryChargeSub.latest.data.amount.t = "number"
           THEN deliveryChargeSub.latest.data.amount.n
           ELSE 50
    /\ (last.op = "checkout" /\ Len(last.cart) > 0
            /\ (last.mode = "offline" \/ FormWasValid))
           => last.outcome = "sent"
\* A delivery order was handed off after the listener, which had delivered
\* an amount of 30, failed: the charge of the order was 50.
C16_Witness ==
    /\ last.op = "checkout"
    /\ last.outcome = "sent"
    /\ last.mode = "online"
    /\ deliveryChargeSub.status = "errored"
    /\ deliveryChargeSub.latest = ChargeDocument(Num(30))
    /\ last.charge = 50

\* C17: in delivery mode with an empty name, an empty address, or a phone
\* that has not exactly 10 digits once the non-digits are stripped, checkout
\* opens no window (composes no message) and leaves the cart, its mirror,
\* the order mode and the customer fields as they were.
C17_InvalidDeliveryBlocked ==
    [][(/\ last'.op = "checkout"
        /\ orderMode = "online"
        /\ \/ customerName = ""
           \/ deliveryAddress = ""
           \/ Len(StripNonDigits(customerPhone)) # 10)
          => /\ last'.opened = <<>>
             /\ UNCHANGED <<cart, localStorage, orderMode, customerName,
                            customerPhone, deliveryAddress>>]_vars
\* Checkout was refused for a phone of nine digits, all else being filled.
C17_Witness ==
    /\ last.op = "checkout"
    /\ last.outcome = "alert"
    /\ Len(cart) > 0
    /\ orderMode = "online"
    /\ customerName # ""
    /\ deliveryAddress # ""
    /\ customerPhone = NineDigits

\* C18: a checkout with a cart that is not empty and that passes the checks
\* opens exactly one window, with the message composed from the cart as the
\* handler met it, and leaves the cart empty; a checkout with an empty cart
\* opens no window and changes nothing.
C18_OneHandOffThenCleared ==
    [][last'.op = "checkout" =>
          IF Len(cart) = 0
          THEN /\ last'.opened = <<>>
               /\ UNCHANGED <<cart, localStorage, orderVars, dialogVars, syncVars>>
          ELSE (\/ orderMode = "offline"
                \/ (/\ customerName # ""
                    /\ deliveryAddress # ""
                    /\ Len(StripNonDigits(customerPhone)) = 10))
                   => /\ Len(last'.opened) = 1
                      /\ last'.opened[1].text =
                             ComposeMessage(cart, orderMode, deliveryCharge,
                                 customerName, customerPhone, deliveryAddress,
                                 last'.orderId)
                      /\ Len(last'.opened[1].text) > 10
                      /\ cart' = <<>>]_vars
\* A delivery order of two lines has been handed off.
C18_Witness ==
    /\ last.op = "checkout"
    /\ last.outcome = "sent"
    /\ last.mode = "online"
    /\ Len(last.cart) = 2
    /\ Len(last.opened) = 1
    /\ cart = <<>>

\* The order of the scenario: two Paneer Rolls, full, at 120, serving label
\* "1", in pickup mode.
PaneerRollScenario ==
    /\ last.op = "checkout"
    /\ last.outcome = "sent"
    /\ last.mode = "offline"
    /\ Len(last.cart) = 1
    /\ last.cart[1].name = Str("Paneer Roll")
    /\ last.cart[1].portion = "full"
    /\ last.cart[1].price = Num(120)
    /\ last.cart[1].quantity = 2
    /\ last.cart[1].serves = Str("1")
\* C19, as claimed: in the scenario the item line reads
\* "*Paneer Roll (Full)* <em dash> <rupee sign>240.00", the total is
\* "<rupee sign>240.00" and there is no delivery charge line.
C19_ItemLineWithoutQuantity ==
    PaneerRollScenario =>
        LET m == last.opened[1].text
        IN  /\ m[6] = "*Paneer Roll (Full)* " \o EmDash \o " " \o RupeeSign \o "240.00"
            /\ m[9] = "*Total: " \o RupeeSign \o "240.00*"
            /\ Len(m) = 11
\* C19, amended: in the scenario the item line reads
\* "*Paneer Roll (Full) x2* <em dash> <rupee sign>240.00": the quantity, being
\* more than 1, is shown.  The total is "<rupee sign>240.00" and there is no
\* delivery charge line.
C19_ItemLineWithQuantity ==
    PaneerRollScenario =>
        last.opened[1].text =
            <<"*New Order*",
              "",
              "*Order ID:* FF-" \o ToString(last.orderId),
              "*Mode:* Takeaway (Offline)",
              "",
              "*Paneer Roll (Full) x2* " \o EmDash \o " " \o RupeeSign \o "240.00",
              "",
              "*Subtotal: " \o RupeeSign \o "240.00*",
              "*Total: " \o RupeeSign \o "240.00*",
              "",
              "Please confirm my order.">>
C19_Witness == PaneerRollScenario /\ Len(last.opened[1].text) = 11

\* The item line the claim describes.
DescribedLine(item) ==
    "*" \o item.name.s
        \o (CASE item.portion = "half" -> " (Half)" [] item.portion = "full" -> " (Full)")
        \o (IF item.serves.t = "string" /\ item.serves.s \notin {"", "1"}
            THEN " [" \o item.serves.s \o "]" ELSE "")
        \o (IF item.quantity > 1 THEN " x" \o ToString(item.quantity) ELSE "")
        \o "* " \o EmDash \o " " \o RupeeSign
        \o ToString(item.price.n * item.quantity) \o ".00"
\* C20: the message has one item line per cart line, in the order of the
\* cart, between two empty lines; each has the label of its portion, the
\* serving label exactly when there is one other than "1", the quantity
\* exactly when it is more than 1, and unit price times quantity.
C20_OneLinePerCartLine ==
    (last.op = "checkout" /\ last.outcome = "sent") =>
        LET m == last.opened[1].text
            c == last.cart
        IN  /\ Len(m) = 5 + Len(c) + (IF last.mode = "online" THEN 11 ELSE 5)
            /\ m[5] = ""
            /\ \A k \in 1..Len(c) : m[5 + k] = DescribedLine(c[k])
            /\ m[6 + Len(c)] = ""
\* An order of two lines: a half with a serving label, a full without.
C20_Witness ==
    /\ last.op = "checkout"
    /\ last.outcome = "sent"
    /\ Len(last.cart) = 2
    /\ last.cart[1].portion = "half"
    /\ last.cart[1].serves = Str("Serves 3")
    /\ last.cart[2].portion = "full"
    /\ last.cart[2].serves = Str("1")

\* The lines of a message after the item lines and the empty line that ends
\* them.
Trailer(message, n) == SubSeq(message, 7 + n, Len(message))
\* C21: the message of a handed-off order always carries the subtotal.  In
\* delivery mode it goes on with the delivery charge line, the total, which
\* is the subtotal plus the charge held at checkout, and the customer's name,
\* phone and address; in pickup mode the total is the subtotal and there is
\* neither a delivery charge line nor any customer field.
C21_TrailerByMode ==
    (last.op = "checkout" /\ last.outcome = "sent") =>
        LET sum == SumFromEnd([k \in 1..Len(last.cart) |->
                                   last.cart[k].price.n * last.cart[k].quantity])
            t   == Trailer(last.opened[1].text, Len(last.cart))
        IN  /\ t[1] = "*Subtotal: " \o RupeeSign \o ToString(sum) \o ".00*"
            /\ IF last.mode = "online"
               THEN t = <<t[1],
                          "*Delivery Charge: " \o RupeeSign \o ToString(last.charge) \o "*",
                          "*Total: " \o RupeeSign \o ToString(sum + last.charge) \o ".00*",
                          "",
                          "*Customer Details:*",
                          "Name: " \o last.name,
                          "Phone: " \o Text(last.phone),
                          "Address: " \o last.address,
                          "",
                          "Please confirm my order.">>
               ELSE t = <<t[1],
                          "*Total: " \o RupeeSign \o ToString(sum) \o ".00*",
                          "",
                          "Please confirm my order.">>
\* A delivery order of subtotal 240 under the charge of 50 was handed off
\* with a total of 290.
C21_Witness ==
    /\ last.op = "checkout"
    /\ last.outcome = "sent"
    /\ last.mode = "online"
    /\ last.charge = 50
    /\ Trailer(last.opened[1].text, Len(last.cart))[1] = "*Subtotal: " \o RupeeSign \o "240.00*"
    /\ Trailer(last.opened[1].text, Len(last.cart))[3] = "*Total: " \o RupeeSign \o "290.00*"

\* The record that a product snapshot made of its k-th document.
NormalizedOf(k) ==
    LET list == productsByCat[last.cat]
    IN  list[CHOOSE j \in 1..Len(list) : list[j].id = last.docs[k].id]
\* A value is a text that is not empty.
NonEmptyText(v) == v.t = "string" /\ v.s # ""
\* A value is a list that is not empty.
NonEmptyList(v) == v.t = "array" /\ Len(v.a) > 0
\* The defaults of a normalized product: a price of 0, a veg flag of true
\* and a serving label of "1" for a field that is missing.
DefaultsApplied(data, p) ==
    /\ "price" \notin DOMAIN data => p.price = Num(0)
    /\ "price" \in DOMAIN data /\ data.price.t = "number" /\ data.price.n # 0
           => p.price = data.price
    /\ "isVeg" \notin DOMAIN data => p.isVeg = Bool(TRUE)
    /\ "isVeg" \in DOMAIN data /\ data.isVeg.t = "boolean" => p.isVeg = data.isVeg
    /\ "quantity" \notin DOMAIN data => p.quantity = Str("1")
    /\ "quantity" \in DOMAIN data /\ NonEmptyText(data.quantity)
           => p.quantity = data.quantity
\* C22: the image list of a normalized product is the list of
\* the document if that is present and not empty; otherwise, the list being
\* absent or empty, the one-element list of the legacy image if that is not
\* empty; otherwise absent.  Price, veg flag and serving label default to 0,
\* true and "1".
C22_LegacyImageWhenListEmpty ==
    last.op = "productsSnapshot" =>
        \A k \in 1..Len(last.docs) :
            LET data == last.docs[k].data
                p == NormalizedOf(k)
            IN  /\ p.imageUrls =
                       IF NonEmptyList(Field(data, "imageUrls"))
                       THEN Field(data, "imageUrls")
                       ELSE IF NonEmptyText(Field(data, "imageUrl"))
                            THEN Arr(<<Field(data, "imageUrl").s>>)
                            ELSE Undefined
                /\ DefaultsApplied(data, p)

\* C23: increaseQty and decreaseQty for a product and portion that no line
\* of the cart has leave the cart as it was.
C23_NoMatchNoChange ==
    [][(/\ last'.op \in {"increase", "decrease"}
        /\ ~HasLine(cart, last'.id, last'.portion))
          => cart' = cart]_vars
\* decreaseQty and increaseQty were called for a pair that the cart, which
\* has other lines, does not hold.
C23_Witness ==
    /\ last.op \in {"increase", "decrease"}
    /\ last.prevQty = 0
    /\ Len(cart) = 2
    /\ HasLine(cart, last.id, IF last.portion = "full" THEN "half" ELSE "full")

\* The sequence without its k-th element.
Without(s, k) == SubSeq(s, 1, k - 1) \o SubSeq(s, k + 1, Len(s))
\* C24: removeFromCart deletes the line of the product and portion, whatever
\* its quantity, and leaves every other line, those of the same product in
\* another portion too, as it was and in the same order.
C24_RemoveDeletesOneLine ==
    [][last'.op = "remove" =>
          IF HasLine(cart, last'.id, last'.portion)
          THEN \E k \in 1..Len(cart) :
                   /\ Matches(cart[k], last'.id, last'.portion)
                   /\ cart' = Without(cart, k)
          ELSE cart' = cart]_vars
\* A line of quantity 2 was removed; the line of the same product in the
\* other portion is still there.
C24_Witness ==
    /\ last.op = "remove"
    /\ last.prevQty = 2
    /\ last.prevLen = 2
    /\ Len(cart) = 1
    /\ cart[1].id = last.id
    /\ cart[1].portion # last.portion

\* The cart with its lines in the order p.
Reordered(c, p) == [k \in 1..Len(c) |-> c[p[k]]]
\* C25: the subtotal depends on the lines of the cart only, not on their
\* order: whatever the order in which operations have brought the lines of
\* the cart about, the subtotal is the same, the sum of unit price times
\* quantity.
C25_SubtotalWhateverTheOrder ==
    /\ \A p \in Permutations(1..Len(cart)) :
           Subtotal(Reordered(cart, p)) = Subtotal(cart)
    /\ Subtotal(cart) = SumFromEnd([k \in 1..Len(cart) |-> cart[k].price.n * cart[k].quantity])
\* Adds and an increase have made a cart of two lines of different amounts.
C25_Witness ==
    /\ last.op = "increase"
    /\ last.prevQty = 1
    /\ Len(cart) = 2
    /\ cart[1].price.n * cart[1].quantity # cart[2].price.n * cart[2].quantity
    /\ Subtotal(cart) = Subtotal(<<cart[2], cart[1]>>)

\* The entry of a map for a key: the one-element sequence of its value, or
\* the empty sequence when the map has no such key.
Entry(f, c) == IF c \in DOMAIN f THEN <<f[c]>> ELSE <<>>
\* The elements of a sequence, as a set.
Elements(s) == {s[j] : j \in 1..Len(s)}
\* C26: a product snapshot for a category replaces the entry of that
\* category alone in the map of products and sets the loading flag of that
\* category alone; the entry then holds the documents of that snapshot.  No
\* snapshot or error of another category, and nothing else but the
\* restart of the page, changes the entry, so the map holds for each
\* category what the latest snapshot of that category delivered, whatever
\* the interleaving.
C26_SnapshotTouchesOwnCategory ==
    [][/\ last'.op = "productsSnapshot" =>
            /\ \A c \in (DOMAIN productsByCat \cup DOMAIN loadingProductsByCat)
                            \ {last'.cat} :
                   /\ Entry(productsByCat', c) = Entry(productsByCat, c)
                   /\ Entry(loadingProductsByCat', c) = Entry(loadingProductsByCat, c)
            /\ Len(productsByCat'[last'.cat]) = Len(last'.docs)
            /\ Elements(productsByCat'[last'.cat])
                   = {NormalizeProduct(d) : d \in Elements(last'.docs)}
            /\ loadingProductsByCat'[last'.cat] = FALSE
       /\ \A c \in DOMAIN productsByCat \cup DOMAIN productsByCat' :
              Entry(productsByCat', c) # Entry(productsByCat, c)
                  => \/ last'.op = "productsSnapshot" /\ last'.cat = c
                     \/ phase' # phase]_vars
\* A later snapshot of the first category has come while the map holds the
\* products of the second category and the second category is still
\* awaited by a newer listener.
C26_Witness ==
    /\ last.op = "productsSnapshot"
    /\ last.cat = "c1"
    /\ ~last.first
    /\ Len(last.docs) = 2
    /\ "c2" \in DOMAIN productsByCat
    /\ Len(productsByCat["c2"]) = 1
    /\ loadingProductsByCat["c2"]

\* C27: after a category snapshot, of any two categories of the list that
\* both have a creation timestamp the one with the later timestamp comes
\* first, also when the snapshot holds records without a timestamp.
C27_StampedInDescendingOrder ==
    \A i, j \in 1..Len(categories) :
        (i < j /\ Truthy(categories[i].createdAt) /\ Truthy(categories[j].createdAt))
            => categories[i].createdAt.n >= categories[j].createdAt.n

\* C28: once an active category is set, a later category snapshot does not
\* change it, whether or not the set category is still in the list; only
\* the selection of a category by the user does.
C28_SnapshotKeepsActiveCategory ==
    [][(last'.op = "categoriesSnapshot" /\ activeCategory # "")
          => activeCategory' = activeCategory]_vars

\* C29: when handleAddToCart finds a line for the product and portion, that
\* line changes in its quantity only, which grows by the quantity added:
\* its unit price and the other fields taken from the product stay those of
\* the first add, whatever the product has become in the catalogue since,
\* and the subtotal grows by the line's own unit price times the quantity
\* added.  The other lines stay as they were.
C29_MergeKeepsFirstSnapshot ==
    [][(last'.op = "add" /\ HasLine(cart, last'.id, last'.portion)) =>
          /\ Len(cart') = Len(cart)
          /\ \A k \in 1..Len(cart) :
                 cart'[k] = IF Matches(cart[k], last'.id, last'.portion)
                            THEN [cart[k] EXCEPT !.quantity = @ + last'.n]
                            ELSE cart[k]
          /\ Subtotal(cart') =
                 Subtotal(cart)
                     + LineOf(cart, last'.id, last'.portion).price.n * last'.n]_vars
\* A Paneer Roll put into the cart at 120 was added again after the product
\* had been renamed and repriced to 150: the line has quantity 2 at 120.
C29_Witness ==
    /\ last.op = "add"
    /\ last.prevQty = 1
    /\ last.portion = "full"
    /\ last.product.price = Num(150)
    /\ last.product.name = Str("Paneer Roll Masala")
    /\ cart = <<[NewItem(NormalizeProduct(PaneerRoll), "full", 2) EXCEPT !.quantity = 2]>>
    /\ cart[1].price = Num(120)
    /\ Subtotal(cart) = 240

\* Carts to price: the empty cart, two Paneer Rolls, a Paneer Roll with a
\* half Family Pack.
PricedCarts ==
    {<<>>,
     <<NewItem(NormalizeProduct(PaneerRoll), "full", 2)>>,
     <<NewItem(NormalizeProduct(PaneerRoll), "full", 1),
       NewItem(NormalizeProduct(FamilyPack), "half", 1)>>}
\* The amount of the document settings/deliveryCharge is a number that is
\* not negative.
AmountNotNegative(document) ==
    /\ document.exists
    /\ Field(document.data, "amount").t = "number"
    /\ Field(document.data, "amount").n >= 0
\* C30: handleSave of the admin console hands an amount to the document
\* settings/deliveryCharge only when the text of the field parses to an
\* integer that is not negative, and the document is written with that
\* amount and nothing else; for any other text nothing is written and the
\* editor stays open.  So, the admin console being the only writer, the
\* charge of the storefront is never negative and the total of a cart in
\* delivery mode is never less than its total in pickup mode.
C30_OnlyValidAmountsSaved ==
    /\ [][/\ last'.op = "handleSave" =>
                LET value == ParseInt(adminSettings.tempValue)
                IN  IF ~IsNaN(value) /\ value.n >= 0
                    THEN /\ pendingSaves' = Append(pendingSaves, value.n)
                         /\ UNCHANGED <<settingsDoc, adminSettings>>
                    ELSE /\ UNCHANGED <<settingsDoc, pendingSaves, adminSettings>>
                         /\ adminSettings'.isEditing
          /\ settingsDoc' # settingsDoc =>
                /\ last'.op = "saveResolved"
                /\ pendingSaves # <<>>
                /\ Head(pendingSaves) >= 0
                /\ settingsDoc' = [exists |-> TRUE,
                                   data |-> [amount |-> Num(Head(pendingSaves))]]]_vars
    /\ [](/\ settingsDoc.exists => AmountNotNegative(settingsDoc)
          /\ deliveryCharge >= 0
          /\ \A c \in PricedCarts \cup {cart} :
                 TotalAmount(c, "online", deliveryCharge)
                     >= TotalAmount(c, "offline", deliveryCharge))
\* The admin had typed -5 and asked to save: nothing was written, the editor
\* is open, and the storefront goes on with the amount saved before, the 4
\* that parseInt had made of 4.5.
C30_Witness ==
    /\ last.op = "handleSave"
    /\ last.text = <<"-", "5">>
    /\ last.alerted
    /\ adminSettings.isEditing
    /\ pendingSaves = <<>>
    /\ settingsDoc = [exists |-> TRUE, data |-> [amount |-> Num(4)]]
    /\ deliveryCharge = 4
    /\ deliveryChargeSub.status = "live"

==========================================================================
